---- MODULE Spec2Model ----
(***************************************************************************)
(* State-machine model of the incident.io <-> ServiceNow synchronisation   *)
(* service: the forward handler (IncidentHandler), the reverse handler     *)
(* (ReverseSyncHandler), the declarative FieldMapper and the wiring done   *)
(* by App.initialize.                                                      *)
(*                                                                         *)
(* Node.js runs the handlers on one thread: a handler runs without         *)
(* interruption from one awaited platform call to the next.  Each action   *)
(* below is one such segment: it consumes the response of the call the     *)
(* handler was waiting for, runs the synchronous code that follows and     *)
(* issues the next platform call.  The platform performs a call when it is *)
(* issued; the response (or error) reaches the handler in a later step.   *)
(***************************************************************************)
EXTENDS Integers, Sequences, FiniteSets, Bags, TLC

(***************************************************************************)
(* Bounds of the model.                                                    *)
(***************************************************************************)
MaxCalls == 2          \* handler invocations in flight at the same time
ClockStep == 10000     \* milliseconds between two observed Date.now() values
MaxTime == 40000       \* last clock value explored
MaxNotes == 2          \* work-note entries a ServiceNow journal can hold
MaxPending == 2        \* notifications a platform has sent and not yet delivered
MaxEdits == 1          \* user edits in one run
MaxLen == 2            \* characters of a string a function is evaluated on
MaxRecords == 3        \* records handed to one bulk operation
MaxBatch == 3          \* performance.batch_size
MaxConcurrent == 2     \* performance.concurrent_requests
MaxRetry == 2          \* a configured retry_attempts
LookupStep == 150000   \* ms the clock of a client advances in one step
MaxLookupTime == 600000 \* ms a client's cache is followed for
MaxLookups == 2        \* lookups of one key in flight at a time

(***************************************************************************)
(* Values.                                                                 *)
(***************************************************************************)
Null == "null"               \* JavaScript null / undefined
Absent == "absent"           \* a key that is not in a dictionary
NoFallback == "nofallback"   \* mapping.fallback === undefined
NoEntry == -1                \* Map.get() of a missing key
IncidentIds == {"X"}
SysIds == {"s1", "s2"}
EmptyMap == [f \in {} |-> Null]

CooldownPeriod == 30000      \* 30 * 1000
FiveMinutes == 300000        \* 5 * 60 * 1000

(***************************************************************************)
(* State.                                                                  *)
(***************************************************************************)
VARIABLES
    now,                       \* Date.now()
    config,                    \* configuration loaded by ConfigManager
    incidentHandlerRef,        \* ReverseSyncHandler.incidentHandler is set
    processingIncidents,       \* IncidentHandler.processingIncidents
    recentReverseSyncUpdates,  \* IncidentHandler.recentReverseSyncUpdates
    processingUpdates,         \* ReverseSyncHandler.processingUpdates
    snRecords,                 \* the ServiceNow incident table
    ioIncidents,               \* the incident.io incidents
    calls,                     \* handler invocations in flight (a bag)
    last,                      \* the invocation that finished most recently
    reverseDoneAt,             \* time the last successful reverse sync of an incident ended
    createCalls,               \* ServiceNow create calls issued per incident (0, 1, many)
    pendingFwd,                \* incident.io webhooks not yet delivered (a bag)
    pendingRev,                \* ServiceNow notifications not yet delivered (a bag)
    emit,                      \* the platforms are set up to notify the service
    edits,                     \* user edits still to come
    maxInFlight,               \* invocations the environment keeps in flight
    payloads,                  \* incident names the webhook payloads can carry
    bulk,                      \* the bulk operation in progress
    eval                       \* a function of the service, its arguments and its result

\* what the handlers of single records leave alone
aside == <<bulk, eval>>

\* fixed once App.initialize has run, or left alone by the handlers
scenario == <<config, incidentHandlerRef, maxInFlight, emit, payloads, aside>>

vars == <<now, processingIncidents, recentReverseSyncUpdates, processingUpdates,
          snRecords, ioIncidents, calls, last, reverseDoneAt, createCalls,
          pendingFwd, pendingRev, edits, scenario>>

Range(seq) == {seq[i] : i \in 1..Len(seq)}

(***************************************************************************)
(* FieldMapper.  A rule of config/field-mappings.json is a record; the     *)
(* rules of the handlers' configurations carry source, type, required and  *)
(* fallback only, a rule evaluated on its own carries every property, a    *)
(* max_length of 0 standing for none.  Of the types of applyFieldMapping,  *)
(* choice_mapping and conditional are not part of a rule set here.         *)
(***************************************************************************)
GetSourceValue(sourcePath, data) ==
    IF sourcePath \in DOMAIN data THEN data[sourcePath] ELSE Null

\* evaluateCondition: a condition `<source> === '<is>'`, or one that is not
\* an expression; an evaluation that throws is caught and gives false
EvaluateCondition(condition, data) ==
    /\ condition.valid
    /\ condition.source \in DOMAIN data
    /\ data[condition.source] = condition.is

\* a mapper that evaluates no condition
AlwaysMet(mapping, data) == TRUE
\* `mapping.condition && !this.evaluateCondition(...)` does not skip the rule
ConditionMet(mapping, data) ==
    ("condition" \in DOMAIN mapping /\ mapping.condition.present)
       => EvaluateCondition(mapping.condition, data)

MapTextField(value, mapping) ==
    IF value = "" THEN Null ELSE value

\* what a mapping function hands to the catch block of applyMappings
Thrown == "throws"

\* mapExpressionField: the expression `value`, the expression
\* `incident.severity.name` on an incident without severity, or no
\* expression at all
MapExpressionField(value, mapping) ==
    IF mapping.expression = "value" THEN value ELSE Thrown

\* mapUserLookup and mapReferenceLookup: eval.lookup is what lookupUser or
\* lookupReference answers, a sys_id, null or a rejection
MapLookup(value, mapping) ==
    IF value = "" THEN Null
    ELSE IF mapping.type = "reference_lookup" /\ mapping.lookup_table = Absent
         THEN Thrown
         ELSE eval.lookup

ApplyFieldMapping(fieldName, mapping, sourceValue) ==
    CASE mapping.type = "text" -> MapTextField(sourceValue, mapping)
      [] mapping.type \in {"user_lookup", "reference_lookup"} ->
            MapLookup(sourceValue, mapping)
      [] mapping.type = "expression" -> MapExpressionField(sourceValue, mapping)
      [] mapping.type \notin {"text", "user_lookup", "reference_lookup",
                              "expression", "choice_mapping", "conditional"} ->
            Thrown

\* the `shouldSkipField` test of applyMappings
ShouldSkipField(fieldName, sourceValue) ==
    IF fieldName = "work_notes"
    THEN sourceValue = Null
    ELSE sourceValue = Null \/ sourceValue = ""

\* a mapper that stores every mapped value whole
Untruncated(mapping, mappedValue) == mappedValue
\* `mappedValue.substring(0, mapping.max_length)` when the rule has a
\* max_length that the value exceeds
Truncated(mapping, mappedValue) ==
    IF /\ "max_length" \in DOMAIN mapping
       /\ mapping.max_length # 0
       /\ Len(mappedValue) > mapping.max_length
    THEN SubSeq(mappedValue, 1, mapping.max_length)
    ELSE mappedValue

\* `if (mapping.fallback !== undefined) result[fieldName] = mapping.fallback`
FallbackOrNothing(mapping) ==
    IF mapping.fallback # NoFallback THEN mapping.fallback ELSE Absent

\* one iteration of the loop of applyMappings: the value stored in
\* result[fieldName], or Absent when the rule stores nothing
MapRule(fieldName, mapping, data) ==
    LET sourceValue == GetSourceValue(mapping.source, data) IN
    IF ~ConditionMet(mapping, data) THEN Absent
    ELSE IF ShouldSkipField(fieldName, sourceValue)
    THEN IF mapping.required THEN Absent
         ELSE FallbackOrNothing(mapping)
    ELSE LET mappedValue == ApplyFieldMapping(fieldName, mapping, sourceValue) IN
         IF mappedValue = Thrown THEN FallbackOrNothing(mapping)
         ELSE IF mappedValue # Null THEN Truncated(mapping, mappedValue)
         ELSE FallbackOrNothing(mapping)

\* the rules whose iteration ends in the catch block
RuleThrows(fieldName, mapping, data) ==
    /\ ConditionMet(mapping, data)
    /\ ~ShouldSkipField(fieldName, GetSourceValue(mapping.source, data))
    /\ ApplyFieldMapping(fieldName, mapping,
                         GetSourceValue(mapping.source, data)) = Thrown

\* the field-level errors applyMappings collects: for rules marked required
\* that have no source value, and for rules that throw
RuleErrors(mappings, data) ==
    {f \in DOMAIN mappings :
        \/ /\ ConditionMet(mappings[f], data)
           /\ ShouldSkipField(f, GetSourceValue(mappings[f].source, data))
           /\ mappings[f].required
        \/ RuleThrows(f, mappings[f], data)}

\* a mapper whose first failing rule ends the whole mapping
ApplyMappingsAborting(mappings, data) ==
    IF \E g \in DOMAIN mappings : RuleThrows(g, mappings[g], data)
    THEN [f \in {} |-> Null]
    ELSE [f \in {g \in DOMAIN mappings : MapRule(g, mappings[g], data) # Absent}
             |-> MapRule(f, mappings[f], data)]
ApplyMappings(mappings, data) ==
    [f \in {g \in DOMAIN mappings : MapRule(g, mappings[g], data) # Absent}
        |-> MapRule(f, mappings[f], data)]

MapForCreation(cfg, data) == ApplyMappings(cfg.incident_creation, data)
MapForUpdate(cfg, data) == ApplyMappings(cfg.incident_updates, data)

\* IncidentHandler.validateRequiredFields: the fields it reports missing
MissingFields(cfg, data, operation) ==
    IF ~cfg.validation_rules THEN {}
    ELSE LET requiredFields == IF operation = "creation"
                               THEN cfg.required_fields_creation
                               ELSE cfg.required_fields_update
         IN {f \in requiredFields :
                f \notin DOMAIN data \/ data[f] = Null \/ data[f] = ""}

(***************************************************************************)
(* Configurations (config/field-mappings.json and config.json features).   *)
(***************************************************************************)
Rule(source, required, fallback) ==
    [source |-> source, type |-> "text", required |-> required, fallback |-> fallback]

CreationRules(required, fallback) ==
    [u_incident_io_id |-> Rule("incident.id", FALSE, NoFallback),
     short_description |-> Rule("incident.name", required, fallback)]

TitleRule == [short_description |-> Rule("incident.name", FALSE, NoFallback)]
NotesRule == [work_notes |-> Rule("incident.summary", FALSE, NoFallback)]
BothRules == [short_description |-> Rule("incident.name", FALSE, NoFallback),
              work_notes |-> Rule("incident.summary", FALSE, NoFallback)]

\* config.features: the switches the routes consult
AllFeatures == {"create_incidents", "update_incidents", "enable_manual_sync_endpoints"}

AllConfigs ==
    [incident_creation : {CreationRules(r, f) : r \in BOOLEAN, f \in {NoFallback, "untitled"}},
     incident_updates : {TitleRule, NotesRule, BothRules},
     validation_rules : BOOLEAN,
     required_fields_creation : {{}, {"short_description"}},
     required_fields_update : {{}},
     add_servicenow_link : {TRUE},
     deduplicate_work_notes : BOOLEAN,
     features : {AllFeatures}]

\* a configuration without validation_rules has no list of required fields
Configs == {c \in AllConfigs : ~c.validation_rules => c.required_fields_creation = {}}

DefaultConfig ==
    [incident_creation |-> CreationRules(FALSE, NoFallback),
     incident_updates |-> BothRules,
     validation_rules |-> TRUE,
     required_fields_creation |-> {"short_description"},
     required_fields_update |-> {},
     add_servicenow_link |-> TRUE,
     deduplicate_work_notes |-> TRUE,
     features |-> AllFeatures]

(***************************************************************************)
(* The two platforms.                                                      *)
(***************************************************************************)
NoRecord ==
    [st |-> "free", u_incident_io_id |-> Null, short_description |-> Null,
     work_notes |-> <<>>]

Incident(name, summary) ==
    [name |-> name, summary |-> summary, updates |-> {}, link |-> FALSE]

\* GET /incidents/{id}: the record the handlers map from
IncidentData(id) ==
    [p \in {"incident.id", "incident.name", "incident.summary"} |->
        CASE p = "incident.id" -> id
          [] p = "incident.name" -> ioIncidents[id].name
          [] p = "incident.summary" -> ioIncidents[id].summary]

\* ServiceNowClient.findIncidentByIncidentIOId: the answers the table can give
FindIncidentByIncidentIOId(id) ==
    LET linked == {s \in SysIds : snRecords[s].st = "live"
                                   /\ snRecords[s].u_incident_io_id = id}
    IN IF linked = {} THEN {"none"} ELSE linked

\* ServiceNowClient.createIncident: POST of the mapped data
CreatedRecord(data) ==
    [st |-> "live",
     u_incident_io_id |-> IF "u_incident_io_id" \in DOMAIN data
                          THEN data.u_incident_io_id ELSE Null,
     short_description |-> IF "short_description" \in DOMAIN data
                           THEN data.short_description ELSE Null,
     work_notes |-> <<>>]

\* ServiceNowClient.updateIncident: PATCH of the mapped data
UpdatedRecord(rec, data) ==
    [rec EXCEPT
        !.short_description = IF "short_description" \in DOMAIN data
                              THEN data.short_description ELSE @,
        !.work_notes = IF "work_notes" \in DOMAIN data
                       THEN <<data.work_notes>> \o @ ELSE @]

\* ServiceNowClient.checkWorkNoteExists: existingNotes.includes(workNote)
CheckWorkNoteExists(sysId, workNote) ==
    /\ snRecords[sysId].st = "live"
    /\ workNote \in Range(snRecords[sysId].work_notes)

(***************************************************************************)
(* Handler invocations.                                                    *)
(***************************************************************************)
NewCall(op, id) ==
    [op |-> op, id |-> id, payload |-> Null, stack |-> <<>>, pc |-> "start",
     res |-> "none",
     sys |-> "none", m |-> EmptyMap, fields |-> {},
     old |-> <<>>, note |-> <<>>, req |-> {}, did |-> {}]

InFlight == BagToSet(calls)

\* what is remembered of the invocation (or user edit) that ended last
NoLast == [op |-> "none", id |-> "none", sys |-> "none", out |-> "none",
           after |-> "none", req |-> {}, did |-> {}]

\* after: the result of the invocation for the same incident that ended
\* just before this one, when that was an updateIncident
After(c) ==
    IF last.op = "update" /\ c.op = "update" /\ last.id = c.id
    THEN last.out ELSE "none"

\* did: the kinds of platform call the invocation issued
Ended(c, out) ==
    [op |-> c.op, id |-> c.id, sys |-> c.sys, out |-> out, after |-> After(c),
     req |-> c.req, did |-> c.did]

Replace(old, new) == calls' = (calls (-) SetToBag({old})) (+) SetToBag({new})

\* frames
SnSame == UNCHANGED <<snRecords, pendingRev, createCalls>>
IoSame == UNCHANGED <<ioIncidents, pendingFwd>>
Running == UNCHANGED <<processingIncidents, processingUpdates, last>>

\* the platforms notify the service of a write when they are set up to
IoNotifies(id) ==
    /\ emit => BagCardinality(pendingFwd) < MaxPending
    /\ pendingFwd' = IF emit THEN pendingFwd (+) SetToBag({id}) ELSE pendingFwd

SnNotifies(sysId, updatedFields, oldValues) ==
    /\ emit => BagCardinality(pendingRev) < MaxPending
    /\ pendingRev' = IF emit
                     THEN pendingRev (+) SetToBag({[sys |-> sysId,
                              fields |-> updatedFields, old |-> oldValues]})
                     ELSE pendingRev

\* a handler that never finds its lock taken
HasNever(set, key) == FALSE
\* `this.processingIncidents.has(incidentId)`
ProcessingIncidentsHas(set, key) == key \in set

\* a finally block that leaves the lock in place
DeleteNothing(set, key) == set
\* `this.processingIncidents.delete(incidentId)`
ProcessingIncidentsDelete(set, key) == set \ {key}

\* The innermost frame returns or throws.  The callers up the stack only
\* pass the result on; every createIncident frame on the stack runs its
\* finally block.
Return(old, c, out) ==
    /\ calls' = calls (-) SetToBag({old})
    /\ processingIncidents' = IF "create" \in Range(c.stack)
                              THEN ProcessingIncidentsDelete(processingIncidents, c.id)
                              ELSE processingIncidents
    /\ last' = Ended(c, out)
    /\ UNCHANGED processingUpdates

(***************************************************************************)
(* IncidentHandler: Loop Guard.                                            *)
(***************************************************************************)
\* `if (recentUpdate)`: undefined and 0 are falsy
Truthy(timestamp) == timestamp # NoEntry /\ timestamp # 0

\* a trackReverseSyncUpdate without its clean-up of old entries
TrackWithoutCleanup(map, id, time) == [map EXCEPT ![id] = time]
\* trackReverseSyncUpdate: the map it leaves behind
TrackReverseSyncUpdate(map, id, time) ==
    LET set == [map EXCEPT ![id] = time]
        fiveMinutesAgo == time - FiveMinutes
    IN [i \in DOMAIN set |-> IF set[i] # NoEntry /\ set[i] < fiveMinutesAgo
                             THEN NoEntry ELSE set[i]]

\* the value shouldSkipForwardSync returns
ShouldSkipForwardSync(map, id, time) ==
    /\ Truthy(map[id])
    /\ time - map[id] < CooldownPeriod

\* a check that restarts the cooldown whenever it suppresses
AfterSkipCheckRestarts(map, id, time) ==
    IF Truthy(map[id])
    THEN [map EXCEPT ![id] = IF time - map[id] < CooldownPeriod
                             THEN time ELSE NoEntry]
    ELSE map
\* the map shouldSkipForwardSync leaves behind
AfterSkipCheck(map, id, time) ==
    IF Truthy(map[id]) /\ ~(time - map[id] < CooldownPeriod)
    THEN [map EXCEPT ![id] = NoEntry]
    ELSE map

(***************************************************************************)
(* IncidentHandler: createIncident and updateIncident.                     *)
(*                                                                         *)
(* stack holds the frames of an invocation that are inside their try       *)
(* block, outermost first: createIncident redirects to updateIncident and  *)
(* updateIncident to createIncident with `return await`.                   *)
(***************************************************************************)
\* Entry of updateIncident up to its first await (findIncidentByIncidentIOId)
EnterUpdate(old, c) ==
    /\ recentReverseSyncUpdates' = AfterSkipCheck(recentReverseSyncUpdates, c.id, now)
    /\ IF ShouldSkipForwardSync(recentReverseSyncUpdates, c.id, now)
       THEN Return(old, c, "suppressed")
       ELSE /\ \E r \in FindIncidentByIncidentIOId(c.id) \cup {"err"} :
                 Replace(old, [c EXCEPT !.stack = Append(@, "update"),
                                        !.pc = "u_find", !.res = r,
                                        !.did = @ \cup {"read"}])
            /\ Running

\* Entry of createIncident up to its first await (findIncidentByIncidentIOId)
EnterCreate(old, c) ==
    /\ UNCHANGED recentReverseSyncUpdates
    /\ IF ProcessingIncidentsHas(processingIncidents, c.id)
       THEN Return(old, c, "dropped")
       ELSE /\ processingIncidents' = processingIncidents \cup {c.id}
            /\ \E r \in FindIncidentByIncidentIOId(c.id) \cup {"err"} :
                 Replace(old, [c EXCEPT !.stack = Append(@, "create"),
                                        !.pc = "c_find", !.res = r,
                                        !.did = @ \cup {"read"}])
            /\ UNCHANGED <<processingUpdates, last>>

\* a handler that maps the incident of the webhook payload when it has one
PayloadData(c) ==
    IF c.payload = Null THEN IncidentData(c.id)
    ELSE [IncidentData(c.id) EXCEPT !["incident.name"] = c.payload]
\* `Always fetch fresh incident details`: the handlers map the record that
\* incidentIOClient.getIncident returns, whatever the webhook payload holds
FetchedData(c) == IncidentData(c.id)

\* updateIncident(id) from its invocation to its first await
UpdateIncident(id) ==
    /\ BagCardinality(calls) < maxInFlight
    /\ \E p \in payloads :
         EnterUpdate(NewCall("update", id),
                     [NewCall("update", id) EXCEPT !.payload = p])
    /\ SnSame
    /\ UNCHANGED <<now, ioIncidents, reverseDoneAt, edits, scenario>>

\* createIncident(id) from its invocation to its first await
CreateIncident(id) ==
    /\ BagCardinality(calls) < maxInFlight
    /\ \E p \in payloads :
         EnterCreate(NewCall("create", id),
                     [NewCall("create", id) EXCEPT !.payload = p])
    /\ SnSame
    /\ UNCHANGED <<now, ioIncidents, reverseDoneAt, edits, scenario>>

\* updateIncident after findIncidentByIncidentIOId
UpdateAfterFind(c) ==
    /\ c.pc = "u_find"
    /\ SnSame /\ IoSame
    /\ UNCHANGED <<now, reverseDoneAt, edits, scenario>>
    /\ CASE c.res = "err" ->
              Return(c, c, "error") /\ UNCHANGED recentReverseSyncUpdates
         [] c.res = "none" ->
              EnterCreate(c, c)
         [] OTHER ->
              /\ \E r \in {"ok", "err"} :
                   Replace(c, [c EXCEPT !.pc = "u_get", !.sys = c.res, !.res = r,
                                        !.did = @ \cup {"io"},
                                        !.m = MapForUpdate(config, FetchedData(c))])
              /\ Running
              /\ UNCHANGED recentReverseSyncUpdates

\* `Skip update if no changes`, else ServiceNowClient.updateIncident
WriteOrSkip(c, mappedData) ==
    IF DOMAIN mappedData = {}
    THEN Return(c, c, "noop") /\ SnSame
    ELSE /\ Running
         /\ UNCHANGED createCalls
         /\ \/ /\ snRecords[c.sys].st = "live"
               /\ "work_notes" \in DOMAIN mappedData
                     => Len(snRecords[c.sys].work_notes) < MaxNotes
               /\ snRecords' = [snRecords EXCEPT
                                   ![c.sys] = UpdatedRecord(@, mappedData)]
               /\ SnNotifies(c.sys, DOMAIN mappedData, snRecords[c.sys].work_notes)
               /\ Replace(c, [c EXCEPT !.pc = "u_write", !.res = "ok",
                                       !.m = mappedData, !.did = @ \cup {"update"}])
            \/ /\ UNCHANGED <<snRecords, pendingRev>>
               /\ Replace(c, [c EXCEPT !.pc = "u_write", !.res = "err",
                                       !.m = mappedData, !.did = @ \cup {"update"}])

\* updateIncident after incidentIOClient.getIncident and mapForUpdate
UpdateAfterGet(c) ==
    /\ c.pc = "u_get"
    /\ IoSame
    /\ UNCHANGED <<now, recentReverseSyncUpdates, reverseDoneAt, edits, scenario>>
    /\ IF c.res = "err"
       THEN Return(c, c, "error") /\ SnSame
       ELSE IF /\ "work_notes" \in DOMAIN c.m
               /\ c.m.work_notes # ""
               /\ config.deduplicate_work_notes
            THEN /\ \E r \in {IF CheckWorkNoteExists(c.sys, c.m.work_notes)
                              THEN "dup" ELSE "nodup", "nodup"} :
                      Replace(c, [c EXCEPT !.pc = "u_dedup", !.res = r,
                                           !.did = @ \cup {"read"}])
                 /\ Running /\ SnSame
            ELSE WriteOrSkip(c, c.m)

\* updateIncident after checkWorkNoteExists
UpdateAfterDedup(c) ==
    /\ c.pc = "u_dedup"
    /\ IoSame
    /\ UNCHANGED <<now, recentReverseSyncUpdates, reverseDoneAt, edits, scenario>>
    /\ WriteOrSkip(c, IF c.res = "dup"
                      THEN [f \in DOMAIN c.m \ {"work_notes"} |-> c.m[f]]
                      ELSE c.m)

\* updateIncident after ServiceNowClient.updateIncident
UpdateAfterWrite(c) ==
    /\ c.pc = "u_write"
    /\ SnSame /\ IoSame
    /\ UNCHANGED <<now, recentReverseSyncUpdates, reverseDoneAt, edits, scenario>>
    /\ Return(c, c, IF c.res = "err" THEN "error" ELSE "updated")

\* the required fields a creation mapping of data leaves without a value:
\* those applyMappings reports and those validateRequiredFields looks for
RequiredMissing(cfg, data) ==
    RuleErrors(cfg.incident_creation, data)
        \cup MissingFields(cfg, MapForCreation(cfg, data), "creation")

\* createIncident after findIncidentByIncidentIOId
CreateAfterFind(c) ==
    /\ c.pc = "c_find"
    /\ SnSame /\ IoSame
    /\ UNCHANGED <<now, reverseDoneAt, edits, scenario>>
    /\ CASE c.res = "err" ->
              Return(c, c, "error") /\ UNCHANGED recentReverseSyncUpdates
         [] c.res = "none" ->
              /\ \E r \in {"ok", "err"} :
                   Replace(c, [c EXCEPT !.pc = "c_get", !.res = r, !.did = @ \cup {"io"},
                        !.m = MapForCreation(config, FetchedData(c)),
                        !.req = RequiredMissing(config, FetchedData(c))])
              /\ Running
              /\ UNCHANGED recentReverseSyncUpdates
         [] OTHER ->
              EnterUpdate(c, c)

\* sys_ids are handed out in this order
SysIdOrder == <<"s1", "s2">>
NextSysId == LET free == {i \in 1..Len(SysIdOrder) : snRecords[SysIdOrder[i]].st = "free"}
             IN {SysIdOrder[i] : i \in {j \in free : \A k \in free : j <= k}}

Bump(n) == IF n < 2 THEN n + 1 ELSE n

\* createIncident after getIncident, mapForCreation and validateRequiredFields
CreateAfterGet(c) ==
    /\ c.pc = "c_get"
    /\ IoSame
    /\ UNCHANGED <<now, recentReverseSyncUpdates, reverseDoneAt, edits, scenario>>
    /\ IF c.res = "err" \/ MissingFields(config, c.m, "creation") # {}
       THEN Return(c, c, "error") /\ SnSame
       ELSE /\ Running
            /\ UNCHANGED pendingRev
            /\ createCalls' = [createCalls EXCEPT ![c.id] = Bump(@)]
            /\ \/ \E s \in NextSysId :
                    /\ snRecords' = [snRecords EXCEPT ![s] = CreatedRecord(c.m)]
                    /\ Replace(c, [c EXCEPT !.pc = "c_create", !.res = "ok",
                                            !.sys = s, !.did = @ \cup {"create"}])
               \/ /\ UNCHANGED snRecords
                  /\ Replace(c, [c EXCEPT !.pc = "c_create", !.res = "err",
                                          !.did = @ \cup {"create"}])

\* createIncident after ServiceNowClient.createIncident
CreateAfterCreate(c) ==
    /\ c.pc = "c_create"
    /\ SnSame
    /\ UNCHANGED <<now, recentReverseSyncUpdates, reverseDoneAt, edits, scenario>>
    /\ IF c.res = "err"
       THEN Return(c, c, "error") /\ IoSame
       ELSE IF config.add_servicenow_link
            THEN /\ Running
                 /\ \/ /\ ioIncidents' = [ioIncidents EXCEPT ![c.id].link = TRUE]
                       /\ IoNotifies(c.id)
                       /\ Replace(c, [c EXCEPT !.pc = "c_link", !.res = "ok",
                                               !.did = @ \cup {"io"}])
                    \/ /\ IoSame
                       /\ Replace(c, [c EXCEPT !.pc = "c_link", !.res = "err",
                                               !.did = @ \cup {"io"}])
            ELSE Return(c, c, "created") /\ IoSame

\* a createIncident that lets a failure of addServiceNowLink fail the creation
LinkFailureThrows(c) ==
    /\ c.pc = "c_link"
    /\ SnSame /\ IoSame
    /\ UNCHANGED <<now, recentReverseSyncUpdates, reverseDoneAt, edits, scenario>>
    /\ Return(c, c, IF c.res = "err" THEN "error" ELSE "created")
\* createIncident after incidentIOClient.addServiceNowLink: the inner catch
\* only logs a failure
CreateAfterLink(c) ==
    /\ c.pc = "c_link"
    /\ SnSame /\ IoSame
    /\ UNCHANGED <<now, recentReverseSyncUpdates, reverseDoneAt, edits, scenario>>
    /\ Return(c, c, "created")

(***************************************************************************)
(* ReverseSyncHandler.  In a reverse invocation sys is the sysId argument  *)
(* and id the incidentIOId read from the record.                           *)
(***************************************************************************)
\* String.prototype.trim over a string given as the sequence of its
\* characters
RECURSIVE TrimStart(_)
TrimStart(str) ==
    IF str # <<>> /\ Head(str) = " " THEN TrimStart(Tail(str)) ELSE str

RECURSIVE TrimEnd(_)
TrimEnd(str) ==
    IF str # <<>> /\ str[Len(str)] = " "
    THEN TrimEnd(SubSeq(str, 1, Len(str) - 1)) ELSE str

Trim(str) == TrimEnd(TrimStart(str))

\* an extraction that always hands back the whole journal
WholeJournal(fullWorkNotes, oldWorkNotes) == fullWorkNotes
\* extractNewWorkNotes over journals given as sequences of characters, the
\* newest first; <<>> stands for both null and the empty string, which its
\* caller does not tell apart (`if (newWorkNotes)`)
ExtractNewWorkNotes(fullWorkNotes, oldWorkNotes) ==
    IF fullWorkNotes = <<>> THEN <<>>
    ELSE IF oldWorkNotes = <<>> THEN fullWorkNotes
    ELSE LET newNotesLength == Len(fullWorkNotes) - Len(oldWorkNotes) IN
         IF newNotesLength > 0
         THEN Trim(SubSeq(fullWorkNotes, 1, newNotesLength))
         ELSE <<>>

\* mapServiceNowToIncidentIO: the field updates (updates.name, ...)
MapServiceNowToIncidentIO(rec, updatedFields) ==
    [f \in {g \in {"name"} : /\ "short_description" \in updatedFields
                             /\ rec.short_description # Null
                             /\ rec.short_description # ""}
        |-> rec.short_description]

\* mapServiceNowToIncidentIO: the note delta of updates.add_update
MappedNote(rec, updatedFields, oldValues) ==
    IF "work_notes" \in updatedFields /\ rec.work_notes # <<>>
    THEN ExtractNewWorkNotes(rec.work_notes, oldValues)
    ELSE <<>>

\* a reverse handler that never finds its lock taken
HasNeverUpdates(set, key) == FALSE
\* `this.processingUpdates.has(sysId)`
ProcessingUpdatesHas(set, key) == key \in set

\* a finally block that leaves the reverse lock in place
DeleteNothingUpdates(set, key) == set
\* `this.processingUpdates.delete(sysId)`
ProcessingUpdatesDelete(set, key) == set \ {key}

\* the finally block of handleServiceNowUpdate
ReverseReturn(old, c, out) ==
    /\ calls' = calls (-) SetToBag({old})
    /\ processingUpdates' = ProcessingUpdatesDelete(processingUpdates, c.sys)
    /\ last' = Ended(c, out)
    /\ UNCHANGED processingIncidents

\* notification values a ServiceNow business rule or an operator can send
UpdatedFieldSets == SUBSET {"short_description", "work_notes"}
OldNotes(sysId) ==
    LET j == snRecords[sysId].work_notes
    IN {SubSeq(j, k, Len(j)) : k \in 1..(Len(j) + 1)}

\* handleServiceNowUpdate up to its first await (getIncidentIOIdFromServiceNow)
HandleServiceNowUpdate(sysId, updatedFields, oldValues) ==
    /\ BagCardinality(calls) < maxInFlight
    /\ IoSame
    /\ UNCHANGED <<now, processingIncidents, recentReverseSyncUpdates, snRecords,
                   createCalls, reverseDoneAt, edits, scenario>>
    /\ LET c == [NewCall("reverse", "none") EXCEPT !.sys = sysId,
                                                   !.fields = updatedFields,
                                                   !.old = oldValues]
       IN IF ProcessingUpdatesHas(processingUpdates, sysId)
          THEN /\ last' = Ended(c, "dropped")
               /\ UNCHANGED <<calls, processingUpdates>>
          ELSE /\ processingUpdates' = processingUpdates \cup {sysId}
               /\ \E r \in (IF snRecords[sysId].st = "live"
                            THEN {snRecords[sysId].u_incident_io_id}
                            ELSE {Null}) \cup {"err"} :
                    Replace(c, [c EXCEPT !.pc = "r_id", !.res = r, !.did = {"read"}])
               /\ UNCHANGED last

\* after getIncidentIOIdFromServiceNow: getIncidentBySysId and the mapping
ReverseAfterId(c) ==
    /\ c.pc = "r_id"
    /\ SnSame /\ IoSame
    /\ UNCHANGED <<now, processingIncidents, recentReverseSyncUpdates,
                   reverseDoneAt, edits, scenario>>
    /\ CASE c.res = "err" -> ReverseReturn(c, c, "error")
         [] c.res = Null -> ReverseReturn(c, c, "unlinked")
         [] OTHER ->
              /\ Running
              /\ \/ /\ snRecords[c.sys].st = "live"
                    /\ Replace(c, [c EXCEPT
                          !.pc = "r_get", !.id = c.res, !.res = "ok",
                          !.did = @ \cup {"read"},
                          !.m = MapServiceNowToIncidentIO(snRecords[c.sys], c.fields),
                          !.note = MappedNote(snRecords[c.sys], c.fields, c.old)])
                 \/ /\ snRecords[c.sys].st # "live"
                    /\ Replace(c, [c EXCEPT !.pc = "r_get", !.id = c.res,
                                            !.res = Null, !.did = @ \cup {"read"}])
                 \/ Replace(c, [c EXCEPT !.pc = "r_get", !.id = c.res,
                                         !.res = "err", !.did = @ \cup {"read"}])

\* incidentIOClient.addIncidentUpdate, issued by applyIncidentIOUpdates
IssueAddUpdate(c) ==
    /\ Running
    /\ \/ /\ ioIncidents' = [ioIncidents EXCEPT ![c.id].updates = @ \cup {c.note}]
          /\ IoNotifies(c.id)
          /\ Replace(c, [c EXCEPT !.pc = "r_add", !.res = "ok", !.did = @ \cup {"io"}])
       \/ /\ IoSame
          /\ Replace(c, [c EXCEPT !.pc = "r_add", !.res = "err", !.did = @ \cup {"io"}])

\* a field update that carries the note as well
IssueUpdateWithNote(c) ==
    /\ Running
    /\ ioIncidents' = [ioIncidents EXCEPT ![c.id].name = c.m.name,
                                          ![c.id].updates = @ \cup {c.note}]
    /\ IoNotifies(c.id)
    /\ Replace(c, [c EXCEPT !.pc = "r_upd", !.res = "ok", !.did = @ \cup {"io"}])
\* incidentIOClient.updateIncident, issued by applyIncidentIOUpdates
IssueUpdate(c) ==
    /\ Running
    /\ \/ /\ ioIncidents' = [ioIncidents EXCEPT ![c.id].name = c.m.name]
          /\ IoNotifies(c.id)
          /\ Replace(c, [c EXCEPT !.pc = "r_upd", !.res = "ok", !.did = @ \cup {"io"}])
       \/ /\ IoSame
          /\ Replace(c, [c EXCEPT !.pc = "r_upd", !.res = "err", !.did = @ \cup {"io"}])

\* `if (this.incidentHandler) this.incidentHandler.trackReverseSyncUpdate(id)`
TrackIfWired(map, id, time) ==
    IF incidentHandlerRef THEN TrackReverseSyncUpdate(map, id, time) ELSE map

\* the end of the try block: trackReverseSyncUpdate, then finally
ReverseSuccess(c) ==
    /\ ReverseReturn(c, c, "synced")
    /\ recentReverseSyncUpdates' = TrackIfWired(recentReverseSyncUpdates, c.id, now)
    /\ reverseDoneAt' = [reverseDoneAt EXCEPT ![c.id] = now]

\* a handler that tracks a sync whose update dictionary is empty
ReverseAfterGetTracks(c) ==
    /\ c.pc = "r_get"
    /\ c.res = "ok"
    /\ DOMAIN c.m = {} /\ c.note = <<>>
    /\ SnSame /\ IoSame
    /\ UNCHANGED <<now, edits, scenario>>
    /\ ReverseSuccess(c)
\* after getIncidentBySysId: empty-update check, then applyIncidentIOUpdates
ReverseAfterGet(c) ==
    /\ c.pc = "r_get"
    /\ SnSame
    /\ UNCHANGED <<now, recentReverseSyncUpdates, reverseDoneAt, edits, scenario>>
    /\ CASE c.res = "err" -> ReverseReturn(c, c, "error") /\ IoSame
         [] c.res = Null -> ReverseReturn(c, c, "notfound") /\ IoSame
         [] OTHER ->
              IF DOMAIN c.m = {} /\ c.note = <<>>
              THEN ReverseReturn(c, c, "nochanges") /\ IoSame
              ELSE IF DOMAIN c.m # {}
                   THEN IssueUpdate(c)
                   ELSE IssueAddUpdate(c)

\* applyIncidentIOUpdates after incidentIOClient.updateIncident
ReverseAfterUpdate(c) ==
    /\ c.pc = "r_upd"
    /\ SnSame
    /\ UNCHANGED <<now, edits, scenario>>
    /\ IF c.res = "err"
       THEN /\ ReverseReturn(c, c, "error")
            /\ IoSame
            /\ UNCHANGED <<recentReverseSyncUpdates, reverseDoneAt>>
       ELSE IF c.note # <<>>
            THEN IssueAddUpdate(c) /\ UNCHANGED <<recentReverseSyncUpdates, reverseDoneAt>>
            ELSE ReverseSuccess(c) /\ IoSame

\* applyIncidentIOUpdates after incidentIOClient.addIncidentUpdate
ReverseAfterAdd(c) ==
    /\ c.pc = "r_add"
    /\ SnSame /\ IoSame
    /\ UNCHANGED <<now, edits, scenario>>
    /\ IF c.res = "err"
       THEN /\ ReverseReturn(c, c, "error")
            /\ UNCHANGED <<recentReverseSyncUpdates, reverseDoneAt>>
       ELSE ReverseSuccess(c)

(***************************************************************************)
(* Environment: webhooks and requests reaching the routes of App, the      *)
(* clock, and the users of the two platforms.                              *)
(***************************************************************************)
\* a manual request, or a webhook of an edit made outside the model
InvokeCreate(id) == CreateIncident(id) /\ UNCHANGED pendingFwd
InvokeUpdate(id) == UpdateIncident(id) /\ UNCHANGED pendingFwd
InvokeReverse(sysId, updatedFields, oldValues) ==
    HandleServiceNowUpdate(sysId, updatedFields, oldValues) /\ UNCHANGED pendingRev

\* routeWebhookEvent: an incident_updated webhook reaches updateIncident
DeliverForward ==
    \E id \in BagToSet(pendingFwd) :
        /\ pendingFwd' = pendingFwd (-) SetToBag({id})
        /\ UpdateIncident(id)

\* POST /webhook/servicenow reaches handleServiceNowUpdate
DeliverReverse ==
    \E n \in BagToSet(pendingRev) :
        /\ pendingRev' = pendingRev (-) SetToBag({n})
        /\ HandleServiceNowUpdate(n.sys, n.fields, n.old)

Tick ==
    /\ now + ClockStep <= MaxTime
    /\ now' = now + ClockStep
    /\ UNCHANGED <<processingIncidents, recentReverseSyncUpdates, processingUpdates,
                   snRecords, ioIncidents, calls, last, reverseDoneAt, createCalls,
                   pendingFwd, pendingRev, edits, scenario>>

Edited(id) == [NoLast EXCEPT !.op = "edit", !.id = id]

\* an incident.io user renames an incident
IncidentEdit(id, name) ==
    /\ edits > 0
    /\ edits' = edits - 1
    /\ name # ioIncidents[id].name
    /\ ioIncidents' = [ioIncidents EXCEPT ![id].name = name]
    /\ IoNotifies(id)
    /\ last' = Edited(id)
    /\ SnSame
    /\ UNCHANGED <<now, processingIncidents, recentReverseSyncUpdates,
                   processingUpdates, calls, reverseDoneAt, scenario>>

\* a ServiceNow user rewrites the short description of a record
ServiceNowEdit(sysId, text) ==
    /\ edits > 0
    /\ edits' = edits - 1
    /\ snRecords[sysId].st = "live"
    /\ text # snRecords[sysId].short_description
    /\ snRecords' = [snRecords EXCEPT ![sysId].short_description = text]
    /\ SnNotifies(sysId, {"short_description"}, snRecords[sysId].work_notes)
    /\ last' = Edited(sysId)
    /\ IoSame
    /\ UNCHANGED <<now, processingIncidents, recentReverseSyncUpdates,
                   processingUpdates, calls, reverseDoneAt, createCalls, scenario>>

\* a ServiceNow user deletes a record
ServiceNowDelete(sysId) ==
    /\ snRecords[sysId].st = "live"
    /\ snRecords' = [snRecords EXCEPT ![sysId] = [NoRecord EXCEPT !.st = "deleted"]]
    /\ IoSame
    /\ UNCHANGED <<now, processingIncidents, recentReverseSyncUpdates,
                   processingUpdates, calls, last, reverseDoneAt, createCalls,
                   pendingRev, edits, scenario>>

(***************************************************************************)
(* App.initialize and the specifications.                                  *)
(***************************************************************************)
\* a ServiceNow record created for incident id earlier
LinkedRecord(id, text) ==
    [st |-> "live", u_incident_io_id |-> id, short_description |-> text,
     work_notes |-> <<>>]

InitState ==
    /\ now = ClockStep
    /\ processingIncidents = {}
    /\ processingUpdates = {}
    /\ calls = EmptyBag
    /\ last = NoLast
    /\ reverseDoneAt = [i \in IncidentIds |-> NoEntry]
    /\ createCalls = [i \in IncidentIds |-> 0]
    /\ pendingFwd = EmptyBag
    /\ pendingRev = EmptyBag

\* no bulk operation, no function under evaluation
NoBulk == [op |-> "none"]
NoEval == [fn |-> "none"]
Idle == bulk = NoBulk /\ eval = NoEval

\* src/app.js builds the ReverseSyncHandler without the IncidentHandler,
\* the other App with it
Wiring == incidentHandlerRef \in BOOLEAN

ForwardStep ==
    \E c \in InFlight :
        \/ UpdateAfterFind(c)
        \/ UpdateAfterGet(c)
        \/ UpdateAfterDedup(c)
        \/ UpdateAfterWrite(c)
        \/ CreateAfterFind(c)
        \/ CreateAfterGet(c)
        \/ CreateAfterCreate(c)
        \/ CreateAfterLink(c)

ReverseStep ==
    \E c \in InFlight :
        \/ ReverseAfterId(c)
        \/ ReverseAfterGet(c)
        \/ ReverseAfterUpdate(c)
        \/ ReverseAfterAdd(c)

CreateTrigger == \E id \in IncidentIds : InvokeCreate(id)
UpdateTrigger == \E id \in IncidentIds : InvokeUpdate(id)
ReverseTrigger ==
    \E s \in SysIds, f \in UpdatedFieldSets : \E o \in OldNotes(s) :
        InvokeReverse(s, f, o)

\* the whole service, one invocation at a time, with the clock
Init ==
    /\ InitState
    /\ Wiring
    /\ recentReverseSyncUpdates = [i \in IncidentIds |-> NoEntry]
    /\ config = DefaultConfig
    /\ snRecords = [s \in SysIds |-> NoRecord]
    /\ ioIncidents = [i \in IncidentIds |-> Incident("n1", "m1")]
    /\ maxInFlight = 1
    /\ emit = FALSE
    /\ edits = 0
    /\ payloads = {Null}
    /\ Idle

Next ==
    \/ CreateTrigger
    \/ UpdateTrigger
    \/ ReverseTrigger
    \/ ForwardStep
    \/ ReverseStep
    \/ Tick

Spec == Init /\ [][Next]_vars

\* overlapping forward invocations, with or without a Loop Guard entry left
\* by a reverse sync that has just ended
ForwardInit ==
    /\ InitState
    /\ incidentHandlerRef = TRUE
    /\ recentReverseSyncUpdates \in [IncidentIds -> {NoEntry, ClockStep}]
    /\ config = DefaultConfig
    /\ snRecords = [s \in SysIds |-> NoRecord]
    /\ ioIncidents = [i \in IncidentIds |-> Incident("n1", "m1")]
    /\ maxInFlight = MaxCalls
    /\ emit = FALSE
    /\ edits = 0
    /\ payloads = {Null}
    /\ Idle

ForwardNext ==
    \/ CreateTrigger
    \/ UpdateTrigger
    \/ ForwardStep

ForwardSpec == ForwardInit /\ [][ForwardNext]_vars

\* overlapping reverse invocations on records created earlier
ReverseInit ==
    /\ InitState
    /\ Wiring
    /\ recentReverseSyncUpdates = [i \in IncidentIds |-> NoEntry]
    /\ config = DefaultConfig
    /\ snRecords = [s \in SysIds |-> IF s = "s1" THEN LinkedRecord("X", "n1")
                                    ELSE LinkedRecord(Null, "n2")]
    /\ ioIncidents = [i \in IncidentIds |-> Incident("n1", "m1")]
    /\ maxInFlight = MaxCalls
    /\ emit = FALSE
    /\ edits = 0
    /\ payloads = {Null}
    /\ Idle

ReverseNext ==
    \/ ReverseTrigger
    \/ ReverseStep
    \/ \E s \in SysIds : ServiceNowDelete(s)

ReverseSpec == ReverseInit /\ [][ReverseNext]_vars

\* the mapping configurations, one forward invocation at a time
Names == {"n1", "n2", Null}
Summaries == {"m1", ""}

MappingInit ==
    /\ InitState
    /\ incidentHandlerRef = FALSE
    /\ recentReverseSyncUpdates = [i \in IncidentIds |-> NoEntry]
    /\ config \in Configs
    /\ snRecords = [s \in SysIds |-> NoRecord]
    /\ ioIncidents \in [IncidentIds -> {Incident(n, m) : n \in Names \ {"n2"},
                                                       m \in Summaries}]
    /\ maxInFlight = 1
    /\ emit = FALSE
    /\ edits = MaxEdits
    /\ payloads = {Null}
    /\ Idle

UserEdit == \E id \in IncidentIds, n \in Names \ {Null} : IncidentEdit(id, n)

MappingNext ==
    \/ CreateTrigger
    \/ UpdateTrigger
    \/ ForwardStep
    \/ UserEdit

MappingSpec == MappingInit /\ [][MappingNext]_vars

\* both directions with the platforms notifying the service of every write,
\* every notification handled within the cooldown: the clock stands still
LoopInit ==
    /\ InitState
    /\ Wiring
    /\ recentReverseSyncUpdates = [i \in IncidentIds |-> NoEntry]
    /\ config = DefaultConfig
    /\ snRecords = [s \in SysIds |-> IF s = "s1" THEN LinkedRecord("X", "n1")
                                    ELSE NoRecord]
    /\ ioIncidents = [i \in IncidentIds |-> Incident("n1", "m1")]
    /\ maxInFlight = MaxCalls
    /\ emit = TRUE
    /\ edits = MaxEdits
    /\ payloads = {Null}
    /\ Idle

RecordEdit == \E s \in SysIds, n \in Names \ {Null} : ServiceNowEdit(s, n)

LoopNext ==
    \/ UserEdit
    \/ RecordEdit
    \/ DeliverForward
    \/ DeliverReverse
    \/ ForwardStep
    \/ ReverseStep

\* Express delivers every request it has received and the event loop
\* resumes every handler whose awaited call has settled
LoopSpec ==
    /\ LoopInit
    /\ [][LoopNext]_vars
    /\ WF_vars(DeliverForward)
    /\ WF_vars(DeliverReverse)
    /\ WF_vars(ForwardStep)
    /\ WF_vars(ReverseStep)

\* forward invocations, one at a time, triggered by webhooks whose payloads
\* carry names the incident does not have
PayloadNames == {"w1", "w2"}

PayloadInit ==
    /\ InitState
    /\ incidentHandlerRef = FALSE
    /\ recentReverseSyncUpdates = [i \in IncidentIds |-> NoEntry]
    /\ config = DefaultConfig
    /\ snRecords = [s \in SysIds |-> NoRecord]
    /\ ioIncidents = [i \in IncidentIds |-> Incident("n1", "m1")]
    /\ maxInFlight = 1
    /\ emit = FALSE
    /\ edits = 0
    /\ payloads = PayloadNames \cup {Null}
    /\ Idle

PayloadNext ==
    \/ CreateTrigger
    \/ UpdateTrigger
    \/ ForwardStep

PayloadSpec == PayloadInit /\ [][PayloadNext]_vars

(***************************************************************************)
(* Functions of the service evaluated on their own.                        *)
(***************************************************************************)
\* the strings of at most MaxLen characters out of two letters and a blank
Strings == UNION {[1..n -> {"A", "B", " "}] : n \in 0..MaxLen}

\* nothing but eval changes while a function is evaluated
EvalOnly ==
    UNCHANGED <<now, processingIncidents, recentReverseSyncUpdates,
                processingUpdates, snRecords, ioIncidents, calls, last,
                reverseDoneAt, createCalls, pendingFwd, pendingRev, edits,
                config, incidentHandlerRef, maxInFlight, emit, payloads, bulk>>

\* the service at rest: no webhook delivered, no handler running
AtRest ==
    /\ InitState
    /\ incidentHandlerRef = FALSE
    /\ recentReverseSyncUpdates = [i \in IncidentIds |-> NoEntry]
    /\ config = DefaultConfig
    /\ snRecords = [s \in SysIds |-> NoRecord]
    /\ ioIncidents = [i \in IncidentIds |-> Incident("n1", "m1")]
    /\ maxInFlight = 1
    /\ emit = FALSE
    /\ edits = 0
    /\ payloads = {Null}

\* `this.extractNewWorkNotes(fullWorkNotes, oldWorkNotes)`
Extract ==
    /\ eval.fn = "extractNewWorkNotes" /\ ~eval.done
    /\ eval' = [eval EXCEPT !.done = TRUE,
                            !.out = ExtractNewWorkNotes(eval.full, eval.old)]
    /\ EvalOnly

\* incident.io status ids: the three live ones of the built-in table, and a
\* closed one an operator can put in config/field-mappings.json
Investigating == "01JT3NNT3D4J0DDWS19MQYF0RC"
Monitoring == "01JT3NNT3D455EB53SWJHK1QST"
Fixing == "01JT3NNT3D73EK2RXFW4GJY310"
Closed == "closed"
LiveStatusIds == {Investigating, Monitoring, Fixing}

\* ServiceNow incident_state values; "4" is in no table of the source
IncidentStates == {"1", "2", "3", "4", "6", "7", "8"}

\* the built-in statusMapping; Absent where it has no key
StatusMapping ==
    [st \in IncidentStates |->
        CASE st \in {"1", "2"} -> Investigating
          [] st = "3" -> Monitoring
          [] st \in {"6", "7", "8"} -> Fixing
          [] OTHER -> Absent]

\* reverse_mappings.status as an operator can configure it: not present when
\* the section is missing, else an object holding any of the keys "3", "4",
\* "6"
ConfiguredKeys == {"3", "4", "6"}
StatusTables ==
    {[present |-> FALSE, at |-> [st \in IncidentStates |-> Absent]]} \cup
    {[present |-> TRUE,
      at |-> [st \in IncidentStates |->
                 IF st \in ConfiguredKeys THEN t[st] ELSE Absent]] :
        t \in [ConfiguredKeys -> LiveStatusIds \cup {Closed, Absent}]}

\* mapServiceNowStatusToIncidentIO: the id of the status object returned,
\* Null for undefined
MapServiceNowStatusToIncidentIO(table, serviceNowState) ==
    LET builtIn == IF StatusMapping[serviceNowState] = Absent THEN Null
                   ELSE StatusMapping[serviceNowState] IN
    IF table.present
    THEN IF table.at[serviceNowState] # Absent THEN table.at[serviceNowState]
         ELSE builtIn
    ELSE builtIn

\* `this.mapServiceNowStatusToIncidentIO(serviceNowIncident.incident_state)`
MapStatus ==
    /\ eval.fn = "mapServiceNowStatusToIncidentIO" /\ ~eval.done
    /\ eval' = [eval EXCEPT !.done = TRUE,
                   !.out = MapServiceNowStatusToIncidentIO(eval.table, eval.state)]
    /\ EvalOnly


(***************************************************************************)
(* The HTTP routes of the App.                                             *)
(***************************************************************************)
EventTypes ==
    {"public_incident.incident_created_v2", "public_incident.incident_updated_v2",
     "public_incident.incident_status_updated_v2",
     "public_incident.incident_closed_v2"}

\* a router that treats every event it does not know as an update
RoutedAsUpdate(eventType, features) ==
    IF eventType = "public_incident.incident_created_v2"
    THEN IF "create_incidents" \in features THEN "create" ELSE "none"
    ELSE IF "update_incidents" \in features THEN "update" ELSE "none"
\* the `switch (eventType)` of routeWebhookEvent: the handler it calls
Routed(eventType, features) ==
    CASE eventType = "public_incident.incident_created_v2" ->
            IF "create_incidents" \in features THEN "create" ELSE "none"
      [] eventType \in {"public_incident.incident_updated_v2",
                        "public_incident.incident_status_updated_v2"} ->
            IF "update_incidents" \in features THEN "update" ELSE "none"
      [] OTHER -> "none"

\* a route that answers 200 without calling a handler
Acknowledge ==
    /\ last' = [NoLast EXCEPT !.op = "route", !.out = "ignored"]
    /\ SnSame /\ IoSame
    /\ UNCHANGED <<now, processingIncidents, recentReverseSyncUpdates,
                   processingUpdates, calls, reverseDoneAt, edits, scenario>>

\* POST /webhook with a payload of the given event_type that carries the
\* incident id, or no incident at all
RouteWebhookEvent(eventType, id, hasIncident) ==
    LET handler == IF hasIncident THEN Routed(eventType, config.features)
                   ELSE "none"
    IN CASE handler = "create" -> InvokeCreate(id)
         [] handler = "update" -> InvokeUpdate(id)
         [] OTHER -> Acknowledge

\* POST /webhook/servicenow
ServiceNowWebhook(table, operation, sysId, updatedFields, oldValues) ==
    IF table # "incident" \/ operation # "update"
    THEN Acknowledge
    ELSE InvokeReverse(sysId, updatedFields, oldValues)

\* POST /sync/incident/:incidentId with `action` in its body
ManualSync(id, action) ==
    IF action = "create" THEN InvokeCreate(id) ELSE InvokeUpdate(id)

\* POST /sync/servicenow/:sysId, registered when the feature is enabled
ManualReverseSync(sysId, updatedFields, oldValues) ==
    /\ "enable_manual_sync_endpoints" \in config.features
    /\ InvokeReverse(sysId, updatedFields, oldValues)

\* the App of src/unnamed/part_005 with overlapping requests on its routes,
\* a record of incident X in ServiceNow, and with or without a Loop Guard
\* entry that a reverse sync has just written
RouteInit ==
    /\ InitState
    /\ incidentHandlerRef = TRUE
    /\ recentReverseSyncUpdates \in [IncidentIds -> {NoEntry, ClockStep}]
    /\ config = DefaultConfig
    /\ snRecords = [s \in SysIds |-> IF s = "s1" THEN LinkedRecord("X", "n1")
                                    ELSE NoRecord]
    /\ ioIncidents = [i \in IncidentIds |-> Incident("n1", "m1")]
    /\ maxInFlight = MaxCalls
    /\ emit = FALSE
    /\ edits = 0
    /\ payloads = {Null}
    /\ Idle

RouteNext ==
    \/ \E e \in EventTypes, id \in IncidentIds, h \in BOOLEAN :
          RouteWebhookEvent(e, id, h)
    \/ \E n \in {<<"problem", "update">>, <<"incident", "insert">>},
          s \in SysIds :
          ServiceNowWebhook(n[1], n[2], s, {}, <<>>)
    \/ \E s \in SysIds :
          ServiceNowWebhook("incident", "update", s, {"short_description"}, <<>>)
    \/ \E id \in IncidentIds, a \in {"create", "update"} : ManualSync(id, a)
    \/ \E s \in SysIds : ManualReverseSync(s, {"short_description"}, <<>>)
    \/ ForwardStep
    \/ ReverseStep

RouteSpec == RouteInit /\ [][RouteNext]_vars

(***************************************************************************)
(* Bulk operations.  The records of one bulk operation are numbered 1..n   *)
(* in the order of the list; a per-record sync is followed from the call   *)
(* that starts it to the callback that counts its result, and what it does *)
(* in between is one of the outcomes of the handlers above.                *)
(***************************************************************************)
UpdateOutcomes == {"suppressed", "dropped", "noop", "updated", "error"}
CreateOutcomes == {"suppressed", "dropped", "created", "error"}
ReverseOutcomes ==
    {"dropped", "unlinked", "notfound", "nochanges", "synced", "error"}

\* Math.ceil(n / size)
Ceil(n, size) == (n + size - 1) \div size

\* a slice that loses its last element
ShortSlice(i, size, n) == {r \in 1..n : i < r /\ r < i + size}
\* `list.slice(i, i + size)` as the set of the record numbers in it
Slice(i, size, n) == {r \in 1..n : i < r /\ r <= i + size}

\* the action processBatchIncident resolves with, "error" when it throws;
\* found is the answer of findIncidentByIncidentIOId, out the outcome of the
\* updateIncident or createIncident it then awaits
ProcessBatchIncident(dryRun, found, out) ==
    IF dryRun THEN "skipped"
    ELSE IF out = "error" THEN "error"
    ELSE IF found THEN "updated" ELSE "created"

\* `results[result.action]++` and `results.errors.push(...)`
Counted(results, r, action) ==
    IF action = "error"
    THEN [results EXCEPT !.errors = Append(@, r)]
    ELSE [results EXCEPT ![action] = @ + 1]

\* syncAllIncidents after getIncidents has answered with n incidents
SyncAllIncidents(n, batchSize, concurrency, dryRun) ==
    [op |-> "syncAllIncidents", n |-> n, batchSize |-> batchSize,
     concurrency |-> concurrency, dryRun |-> dryRun,
     pc |-> "loop", i |-> 0, j |-> 0, batches |-> 0,
     running |-> {}, starts |-> [r \in 1..n |-> 0],
     out |-> [r \in 1..n |-> "none"],
     results |-> [total |-> n, created |-> 0, updated |-> 0, skipped |-> 0,
                  errors |-> <<>>]]

\* handleBulkServiceNowUpdates(updates) with n updates
HandleBulkServiceNowUpdates(n, concurrency) ==
    [op |-> "handleBulkServiceNowUpdates", n |-> n, batchSize |-> concurrency,
     concurrency |-> concurrency, dryRun |-> FALSE,
     pc |-> "loop", i |-> 0, j |-> 0, batches |-> 0,
     running |-> {}, starts |-> [r \in 1..n |-> 0],
     out |-> [r \in 1..n |-> "none"],
     results |-> [successful |-> 0, failed |-> 0, skipped |-> 0,
                  errors |-> <<>>]]

\* nothing but bulk changes during a bulk operation
BulkOnly ==
    UNCHANGED <<now, processingIncidents, recentReverseSyncUpdates,
                processingUpdates, snRecords, ioIncidents, calls, last,
                reverseDoneAt, createCalls, pendingFwd, pendingRev, edits,
                config, incidentHandlerRef, maxInFlight, emit, payloads, eval>>

Started(b, batch) ==
    [b EXCEPT !.running = @ \cup batch,
              !.starts = [r \in 1..b.n |-> IF r \in batch THEN @[r] + 1 ELSE @[r]]]

\* one turn of the batch loop: `batch.map(...)` calls processBatchIncident
\* for every incident of the batch
StartBatch ==
    /\ bulk.op = "syncAllIncidents" /\ bulk.pc = "loop" /\ bulk.i < bulk.n
    /\ bulk' = [Started(bulk, Slice(bulk.i, bulk.batchSize, bulk.n))
                   EXCEPT !.pc = "await", !.j = 0, !.batches = @ + 1]
    /\ BulkOnly

\* the `.then` or `.catch` callback of one incident of the batch
SettleIncident ==
    /\ bulk.op = "syncAllIncidents"
    /\ \E r \in bulk.running, found \in BOOLEAN,
            out \in UpdateOutcomes \cup CreateOutcomes :
          /\ out \in (IF found THEN UpdateOutcomes ELSE CreateOutcomes)
          /\ LET action == ProcessBatchIncident(bulk.dryRun, found, out) IN
             bulk' = [bulk EXCEPT !.running = @ \ {r},
                                  !.out[r] = action,
                                  !.results = Counted(@, r, action)]
    /\ BulkOnly

\* `await Promise.all(chunk)` for the chunk at offset j of the batch, and the
\* rate-limit delay after it; after the last chunk the loop moves on
AwaitChunk ==
    /\ bulk.op = "syncAllIncidents" /\ bulk.pc = "await"
    /\ LET batch == Slice(bulk.i, bulk.batchSize, bulk.n)
           chunk == Slice(bulk.i + bulk.j, bulk.concurrency, bulk.n) \cap batch
       IN /\ chunk \cap bulk.running = {}
          /\ bulk' = IF bulk.j + bulk.concurrency < Cardinality(batch)
                     THEN [bulk EXCEPT !.j = @ + bulk.concurrency]
                     ELSE [bulk EXCEPT !.i = @ + bulk.batchSize, !.pc = "loop"]
    /\ BulkOnly

\* `return results`
SyncAllDone ==
    /\ bulk.op = "syncAllIncidents" /\ bulk.pc = "loop" /\ bulk.i >= bulk.n
    /\ bulk' = [bulk EXCEPT !.pc = "done"]
    /\ BulkOnly

\* `chunk.map(async (update) => ...)` for the next chunk of updates
StartChunk ==
    /\ bulk.op = "handleBulkServiceNowUpdates" /\ bulk.pc = "loop"
    /\ bulk.i < bulk.n
    /\ bulk' = [Started(bulk, Slice(bulk.i, bulk.concurrency, bulk.n))
                   EXCEPT !.pc = "await", !.batches = @ + 1]
    /\ BulkOnly

\* handleServiceNowUpdate of one update of the chunk returns or throws
SettleUpdate ==
    /\ bulk.op = "handleBulkServiceNowUpdates"
    /\ \E r \in bulk.running, out \in ReverseOutcomes :
          bulk' = [bulk EXCEPT
                     !.running = @ \ {r},
                     !.out[r] = out,
                     !.results = IF out = "error"
                                 THEN [@ EXCEPT !.failed = @ + 1,
                                                !.errors = Append(@, r)]
                                 ELSE [@ EXCEPT !.successful = @ + 1]]
    /\ BulkOnly

\* `await Promise.all(promises)` and the rate-limit delay after it
AwaitUpdates ==
    /\ bulk.op = "handleBulkServiceNowUpdates" /\ bulk.pc = "await"
    /\ bulk.running = {}
    /\ bulk' = [bulk EXCEPT !.i = @ + bulk.concurrency, !.pc = "loop"]
    /\ BulkOnly

\* `return results`
BulkUpdatesDone ==
    /\ bulk.op = "handleBulkServiceNowUpdates" /\ bulk.pc = "loop"
    /\ bulk.i >= bulk.n
    /\ bulk' = [bulk EXCEPT !.pc = "done"]
    /\ BulkOnly

BulkInit ==
    /\ AtRest
    /\ eval = NoEval
    /\ bulk \in
         {SyncAllIncidents(n, b, k, d) :
             n \in 0..MaxRecords, b \in 1..MaxBatch, k \in 1..MaxConcurrent,
             d \in BOOLEAN}
         \cup {HandleBulkServiceNowUpdates(n, k) :
                  n \in 0..MaxRecords, k \in 1..MaxConcurrent}

BulkNext ==
    \/ StartBatch
    \/ SettleIncident
    \/ AwaitChunk
    \/ SyncAllDone
    \/ StartChunk
    \/ SettleUpdate
    \/ AwaitUpdates
    \/ BulkUpdatesDone

BulkSpec == BulkInit /\ [][BulkNext]_vars

\* String.prototype.toLowerCase over a string given as the sequence of its
\* characters
LowerOf(ch) == CASE ch = "A" -> "a" [] ch = "B" -> "b" [] OTHER -> ch
ToLowerCase(str) == [k \in DOMAIN str |-> LowerOf(str[k])]

\* input values of a choice_mapping rule, and the keys its `mappings` object
\* can hold: the same word in two spellings, and a mixed-case one
ChoiceValues == UNION {[1..n -> {"a", "A", "b"}] : n \in 0..MaxLen}
ChoiceKeys == {<<"A">>, <<"a">>, <<"A", "b">>}
ChoiceRules ==
    {[mappings |-> t, fallback |-> f] :
        t \in [ChoiceKeys -> {"t1", "t2", Absent}], f \in {NoFallback, "fb"}}

\* `mappings[key]`, Absent for undefined
Lookup(mappings, key) ==
    IF key \in DOMAIN mappings THEN mappings[key] ELSE Absent

\* `a || b` over a looked-up value and what follows it
OrElse(a, b) == IF a \in {Absent, NoFallback} THEN b ELSE a

\* mapChoiceField(value, mapping); <<>> is the empty string
MapChoiceField(value, mapping) ==
    IF value = <<>> THEN OrElse(mapping.fallback, Null)
    ELSE LET lowerValue == Lookup(mapping.mappings, ToLowerCase(value))
             exactValue == Lookup(mapping.mappings, value)
             mappedValue == OrElse(lowerValue, OrElse(exactValue, mapping.fallback))
         IN OrElse(mappedValue, Null)

\* `this.mapChoiceField(sourceValue, mapping)`
MapChoice ==
    /\ eval.fn = "mapChoiceField" /\ ~eval.done
    /\ eval' = [eval EXCEPT !.done = TRUE,
                            !.out = MapChoiceField(eval.value, eval.mapping)]
    /\ EvalOnly


\* the types applyFieldMapping dispatches on
MappingTypes ==
    {"text", "user_lookup", "reference_lookup", "choice_mapping", "expression",
     "conditional"}

\* a rule of config/field-mappings.json as load sees it: its type (Absent
\* without one, "bogus" for a misspelt one) and the properties it carries
RuleProperties == {"source", "lookup_table", "mappings", "expression", "conditions"}
LoadedRule(type, has) == [type |-> type, has |-> has]
LoadedRules ==
    {LoadedRule(t, h) : t \in MappingTypes \cup {"bogus", Absent},
                        h \in SUBSET RuleProperties}

\* ConfigManager.validateFieldMapping: the errors of one rule
ValidateFieldMapping(mapping) ==
    LET missing(p) == IF p \in mapping.has THEN {} ELSE {p} IN
    CASE mapping.type = Absent -> {"type is required"}
      [] mapping.type = "text" -> missing("source")
      [] mapping.type = "user_lookup" -> missing("source")
      [] mapping.type = "reference_lookup" ->
            missing("source") \cup missing("lookup_table")
      [] mapping.type = "choice_mapping" ->
            missing("source") \cup missing("mappings")
      [] mapping.type = "expression" -> missing("expression")
      [] OTHER -> {"unknown type"}

\* ConfigManager.validateFieldMappings over the rules of incident_creation
\* and incident_updates
ValidateFieldMappings(fieldMappings) ==
    UNION {ValidateFieldMapping(m) :
              m \in fieldMappings.incident_creation
                       \cup fieldMappings.incident_updates}

\* ConfigManager.load with a valid main configuration: validateConfig throws
\* when there is an error, and App.initialize fails with it
Load(fieldMappings) ==
    IF ValidateFieldMappings(fieldMappings) # {} THEN "failed" ELSE "loaded"

\* `await this.config.load()`
LoadConfig ==
    /\ eval.fn = "load" /\ ~eval.done
    /\ eval' = [eval EXCEPT !.done = TRUE, !.out = Load(eval.fieldMappings)]
    /\ EvalOnly

(***************************************************************************)
(* The platform clients: one request through the retry interceptor, and    *)
(* the lookups of one cache key.                                           *)
(***************************************************************************)
\* `this.config.retry_attempts || 3` and `this.config.retry_delay || 1000`
DefaultRetryAttempts == 3
DefaultRetryDelay == 1000
\* `this.cacheTimeout = 5 * 60 * 1000`
CacheTimeout == 300000

\* the ways a request fails: an HTTP status class or an error code
Failures == {"5xx", "4xx", "ECONNRESET", "ENOTFOUND", "ECONNABORTED"}

\* `config.retry.count < (this.config.retry_attempts || 3) && (error.response
\* ?.status >= 500 || error.code === 'ECONNRESET' || error.code === 'ENOTFOUND')`
\* with the retry state already set up
ShouldRetry(count, retry_attempts, failure) ==
    /\ count < (IF retry_attempts.present /\ retry_attempts.n # 0
                THEN retry_attempts.n ELSE DefaultRetryAttempts)
    /\ failure \in {"5xx", "ECONNRESET", "ENOTFOUND"}

\* a request of either client, sent once; its config carries no retry state
Request(client, retry_attempts) ==
    [fn |-> "request", client |-> client, retry_attempts |-> retry_attempts,
     retry |-> [present |-> FALSE, count |-> 0, delay |-> 0],
     sent |-> 1, waits |-> <<>>, retried |-> <<>>, failure |-> Null,
     done |-> FALSE, out |-> Null]

\* the response interceptor's `(response) => response`
RequestSucceeds ==
    /\ eval.fn = "request" /\ ~eval.done
    /\ eval' = [eval EXCEPT !.done = TRUE, !.out = "ok"]
    /\ EvalOnly

\* the response interceptor's error handler, up to the request it sends again
\* after the delay or the rejection it hands to the caller
RequestFails ==
    /\ eval.fn = "request" /\ ~eval.done
    /\ \E failure \in Failures :
          LET retry == IF eval.retry.present THEN eval.retry
                       ELSE [present |-> TRUE, count |-> 0,
                             delay |-> DefaultRetryDelay]
          IN eval' =
               IF ShouldRetry(retry.count, eval.retry_attempts, failure)
               THEN [eval EXCEPT !.retry = [retry EXCEPT !.count = @ + 1,
                                                         !.delay = @ * 2],
                                 !.waits = Append(@, retry.delay),
                                 !.retried = Append(@, failure),
                                 !.failure = failure,
                                 !.sent = @ + 1]
               ELSE [eval EXCEPT !.retry = retry, !.failure = failure,
                                 !.done = TRUE, !.out = "error"]
    /\ EvalOnly

\* `Date.now() - cached.timestamp < this.cacheTimeout` that lets an entry of
\* exactly the timeout's age through
FreshAtTimeout(entry, t) == t - entry.timestamp <= CacheTimeout
\* `Date.now() - cached.timestamp < this.cacheTimeout`
Fresh(entry, t) == t - entry.timestamp < CacheTimeout

\* the cache of a ServiceNowClient for one key: the clock, the entry, the
\* value the platform holds, the lookups waiting for the platform (each with
\* the answer it will get) and the last lookup that returned
CachedKey ==
    [fn |-> "cachedLookup", t |-> 0,
     cache |-> [present |-> FALSE, value |-> Null, timestamp |-> 0],
     platform |-> "v1", waiting |-> EmptyBag,
     last |-> [how |-> "none", value |-> Null, age |-> 0],
     done |-> TRUE, out |-> Null]

\* time passes
LookupTick ==
    /\ eval.fn = "cachedLookup" /\ eval.t + LookupStep <= MaxLookupTime
    /\ eval' = [eval EXCEPT !.t = @ + LookupStep]
    /\ EvalOnly

\* the record looked up changes or disappears on the platform
PlatformEdit ==
    /\ eval.fn = "cachedLookup"
    /\ \E v \in {"v1", "v2", Null} :
          v # eval.platform /\ eval' = [eval EXCEPT !.platform = v]
    /\ EvalOnly

\* cachedLookup up to its return of the cached value or its `await
\* lookupFunction()`
CachedLookup ==
    /\ eval.fn = "cachedLookup"
    /\ IF eval.cache.present /\ Fresh(eval.cache, eval.t)
       THEN eval' = [eval EXCEPT !.last = [how |-> "cache",
                                           value |-> eval.cache.value,
                                           age |-> eval.t - eval.cache.timestamp]]
       ELSE /\ BagCardinality(eval.waiting) < MaxLookups
            /\ eval' = [eval EXCEPT
                          !.cache = [present |-> FALSE, value |-> Null,
                                     timestamp |-> 0],
                          !.waiting = @ (+) SetToBag({[value |-> eval.platform]})]
    /\ EvalOnly

\* lookupFunction answers: the result is stored with the current time
LookupReturns ==
    /\ eval.fn = "cachedLookup"
    /\ \E l \in BagToSet(eval.waiting) :
          LET entry == [present |-> TRUE, value |-> l.value, timestamp |-> eval.t]
          IN eval' = [eval EXCEPT !.waiting = @ (-) SetToBag({l}),
                                  !.cache = entry,
                                  !.last = [how |-> "platform", value |-> l.value,
                                            age |-> 0]]
    /\ EvalOnly

\* lookupFunction throws: nothing is stored
LookupThrows ==
    /\ eval.fn = "cachedLookup"
    /\ \E l \in BagToSet(eval.waiting) :
          eval' = [eval EXCEPT !.waiting = @ (-) SetToBag({l}),
                               !.last = [how |-> "error", value |-> Null,
                                         age |-> 0]]
    /\ EvalOnly

(***************************************************************************)
(* ReverseSyncHandler.mapServiceNowToIncidentIO with all its fields.  A    *)
(* field of the fetched record that is missing or empty is "".             *)
(***************************************************************************)
Critical == "sev_critical"
Major == "sev_major"
Minor == "sev_minor"

\* the values of priority, urgency and impact
PriorityCodes == {"1", "2", "3", "5", "10"}
\* parseInt and Number.prototype.toString over these values
ParseInt(str) ==
    CASE str = "1" -> 1 [] str = "2" -> 2 [] str = "3" -> 3
      [] str = "5" -> 5 [] str = "10" -> 10
NumberToString(n) == CHOOSE str \in PriorityCodes : ParseInt(str) = n
\* Math.min
Min(a, b) == IF a <= b THEN a ELSE b

\* reverse_mappings.severity of config/field-mappings.json
SeverityTables ==
    {[present |-> FALSE, at |-> [p \in PriorityCodes |-> Absent]],
     [present |-> TRUE,
      at |-> [p \in PriorityCodes |->
                 CASE p = "1" -> Critical [] p = "2" -> Major
                   [] p = "3" -> Minor [] OTHER -> Absent]]}

\* the outcome of a read of `defaultSeverityMapping`, an identifier that
\* reverse-sync-handler.js never declares
ReferenceError == "ReferenceError"

\* mapServiceNowPriorityToIncidentIO: the id of the severity object returned
MapServiceNowPriorityToIncidentIO(table, serviceNowPriority) ==
    IF table.present /\ table.at[serviceNowPriority] # Absent
    THEN table.at[serviceNowPriority]
    ELSE ReferenceError

\* a priority taken as the larger of urgency and impact
LeastUrgent(rec) ==
    IF rec.priority # "" THEN rec.priority
    ELSE IF rec.urgency # "" /\ rec.impact # ""
         THEN NumberToString(IF ParseInt(rec.urgency) >= ParseInt(rec.impact)
                       THEN ParseInt(rec.urgency) ELSE ParseInt(rec.impact))
         ELSE ""
\* `let priorityValue = serviceNowIncident.priority`, else from urgency and
\* impact
PriorityValue(rec) ==
    IF rec.priority # "" THEN rec.priority
    ELSE IF rec.urgency # "" /\ rec.impact # ""
         THEN NumberToString(Min(ParseInt(rec.urgency), ParseInt(rec.impact)))
         ELSE ""

\* updates.severity_id: Absent when none is set
SeverityUpdate(rec, updatedFields, features, table) ==
    IF features.sync_severity
       /\ updatedFields \cap {"urgency", "impact", "priority"} # {}
       /\ PriorityValue(rec) # ""
    THEN MapServiceNowPriorityToIncidentIO(table, PriorityValue(rec))
    ELSE Absent

\* updates.incident_status_id
StatusUpdate(rec, updatedFields, features) ==
    IF features.sync_status /\ "incident_state" \in updatedFields
       /\ MapServiceNowStatusToIncidentIO(
              [present |-> FALSE, at |-> [st \in IncidentStates |-> Absent]],
              rec.incident_state) # Null
    THEN MapServiceNowStatusToIncidentIO(
              [present |-> FALSE, at |-> [st \in IncidentStates |-> Absent]],
              rec.incident_state)
    ELSE Absent

\* updates.summary
SummaryUpdate(rec, updatedFields) ==
    IF "description" \in updatedFields /\ rec.description # ""
    THEN rec.description ELSE Absent

\* a mapping that trusts the values of the notification
NameOfNotification(rec, updatedFields, oldValues) ==
    IF "short_description" \in updatedFields /\ rec.short_description # ""
    THEN oldValues.short_description ELSE Absent
\* updates.name
NameUpdate(rec, updatedFields, oldValues) ==
    IF "name" \in DOMAIN MapServiceNowToIncidentIO(rec, updatedFields)
    THEN MapServiceNowToIncidentIO(rec, updatedFields).name ELSE Absent

\* the dictionary mapServiceNowToIncidentIO returns, or the error it throws
MappedUpdates(rec, updatedFields, oldValues, features, table) ==
    IF SeverityUpdate(rec, updatedFields, features, table) = ReferenceError
    THEN [threw |-> TRUE, name |-> Absent, summary |-> Absent,
          add_update |-> <<>>, incident_status_id |-> Absent,
          severity_id |-> Absent]
    ELSE [threw |-> FALSE,
          name |-> NameUpdate(rec, updatedFields, oldValues),
          summary |-> SummaryUpdate(rec, updatedFields),
          add_update |-> MappedNote(rec, updatedFields, oldValues.work_notes),
          incident_status_id |-> StatusUpdate(rec, updatedFields, features),
          severity_id |-> SeverityUpdate(rec, updatedFields, features, table)]

\* the records getIncidentBySysId can return, the notifications and the
\* settings a mapping is evaluated on
FetchedRecords ==
    [short_description : {"n1", ""}, description : {"d1", ""},
     work_notes : {<<>>, <<"B", "A">>}, incident_state : {"1", "4"},
     priority : {"", "2", "5"}, urgency : {"", "2", "10"}, impact : {"", "3"}]
\* updated_fields: nothing, one field, all fields but one, or all of them
SyncedFields ==
    {"short_description", "description", "work_notes", "incident_state",
     "urgency", "impact", "priority"}
NotifiedFields ==
    {{}, SyncedFields} \cup {{f} : f \in SyncedFields}
                      \cup {SyncedFields \ {f} : f \in SyncedFields}
NotifiedValues == [short_description : {"n0"}, work_notes : {<<>>, <<"A">>}]
SyncFeatures == [sync_status : BOOLEAN, sync_severity : BOOLEAN]

\* `await this.mapServiceNowToIncidentIO(serviceNowIncident, updatedFields,
\* oldValues)`
MapFields ==
    /\ eval.fn = "mapServiceNowToIncidentIO" /\ ~eval.done
    /\ eval' = [eval EXCEPT
                  !.done = TRUE,
                  !.out = MappedUpdates(eval.rec, eval.updatedFields, eval.old,
                                        eval.features, eval.table)]
    /\ EvalOnly

(***************************************************************************)
(* The Loop Guard of an IncidentHandler over a longer time: the clock, the *)
(* map, the time of the last trackReverseSyncUpdate of every incident and  *)
(* of the most recent one.                                                 *)
(***************************************************************************)
GuardIds == {"X", "Y"}
LoopGuard ==
    [fn |-> "loopGuard", t |-> LookupStep,
     map |-> [i \in GuardIds |-> NoEntry],
     tracks |-> [i \in GuardIds |-> NoEntry], written |-> NoEntry,
     done |-> TRUE, out |-> Null]

\* time passes
GuardTick ==
    /\ eval.fn = "loopGuard" /\ eval.t + LookupStep <= MaxLookupTime
    /\ eval' = [eval EXCEPT !.t = @ + LookupStep, !.out = "tick"]
    /\ EvalOnly

\* `this.incidentHandler.trackReverseSyncUpdate(incidentIOId)`
GuardTrack(id) ==
    /\ eval.fn = "loopGuard"
    /\ eval' = [eval EXCEPT
                  !.map = TrackReverseSyncUpdate(eval.map, id, eval.t),
                  !.tracks[id] = eval.t, !.written = eval.t, !.out = "tracked"]
    /\ EvalOnly

\* `if (this.shouldSkipForwardSync(incidentId))`
GuardCheck(id) ==
    /\ eval.fn = "loopGuard"
    /\ eval' = [eval EXCEPT
                  !.map = AfterSkipCheck(eval.map, id, eval.t),
                  !.out = IF ShouldSkipForwardSync(eval.map, id, eval.t)
                          THEN "skip" ELSE "pass"]
    /\ EvalOnly

(***************************************************************************)
(* FieldMapper.applyMappings on rule sets of two rules: one for            *)
(* short_description or work_notes that carries every property, and a      *)
(* plain one for category.                                                 *)
(***************************************************************************)
FieldLength == 3       \* the max_length of a rule that has one

NoCondition == [present |-> FALSE, valid |-> TRUE, source |-> "incident.id", is |-> "X"]
Conditions ==
    {NoCondition} \cup
    {[present |-> TRUE, valid |-> v, source |-> "incident.id", is |-> i] :
        v \in BOOLEAN, i \in {"X", "Z"}}

\* type with the properties that go with it
TypedRules ==
    {[type |-> "text", expression |-> Absent, lookup_table |-> Absent],
     [type |-> "expression", expression |-> "value", lookup_table |-> Absent],
     [type |-> "expression", expression |-> "incident.severity.name",
      lookup_table |-> Absent],
     [type |-> "user_lookup", expression |-> Absent, lookup_table |-> Absent],
     [type |-> "reference_lookup", expression |-> Absent, lookup_table |-> "cmdb"],
     [type |-> "reference_lookup", expression |-> Absent, lookup_table |-> Absent],
     [type |-> "bogus", expression |-> Absent, lookup_table |-> Absent]}

FullRules ==
    {[source |-> s, type |-> t.type, expression |-> t.expression,
      lookup_table |-> t.lookup_table, required |-> r, fallback |-> f,
      condition |-> c, max_length |-> m] :
        s \in {"incident.name", "incident.severity.name"}, t \in TypedRules,
        r \in BOOLEAN, f \in {NoFallback, "fallback"}, c \in Conditions,
        m \in {0, FieldLength}}

PlainRule ==
    [source |-> "incident.name", type |-> "text", expression |-> Absent,
     lookup_table |-> Absent, required |-> FALSE, fallback |-> NoFallback,
     condition |-> NoCondition, max_length |-> 0]

RuleSets ==
    {[g \in {f, "category"} |-> IF g = f THEN r ELSE PlainRule] :
        f \in {"short_description", "work_notes"}, r \in FullRules}

\* incident.io records: with a name, with an empty name, without a name;
\* none has a severity
MappedData ==
    {[p \in {"incident.id", "incident.name"} |->
         IF p = "incident.id" THEN "X" ELSE n] : n \in {"name5", ""}}
    \cup {[p \in {"incident.id"} |-> "X"]}

\* `await this.applyMappings(mappings, incidentData, serviceNowClient)`
ApplyRules ==
    /\ eval.fn = "applyMappings" /\ ~eval.done
    /\ eval' = [eval EXCEPT
                  !.done = TRUE,
                  !.out = ApplyMappings(eval.mappings, eval.data),
                  !.errors = RuleErrors(eval.mappings, eval.data)]
    /\ EvalOnly

\* the service at rest, about to evaluate one of these functions on one
\* input: extractNewWorkNotes on two journals, the status mapping on a table
\* and a state, mapChoiceField on a value and a rule, load on the rules of
\* incident_creation (one rule) and incident_updates (none or one), a request
\* of a client under a retry_attempts setting, the lookups of a cache key,
\* the reverse mapping on a fetched record and a notification, the Loop Guard
\* over time, applyMappings on a rule set, a record and a lookup answer
EvalInit ==
    /\ AtRest
    /\ bulk = NoBulk
    /\ eval \in
         {[fn |-> "extractNewWorkNotes", full |-> f, old |-> o,
           done |-> FALSE, out |-> <<>>] : f \in Strings, o \in Strings}
         \cup {[fn |-> "mapServiceNowStatusToIncidentIO", table |-> t,
                state |-> st, done |-> FALSE, out |-> Null] :
                  t \in StatusTables, st \in IncidentStates}
         \cup {[fn |-> "mapChoiceField", value |-> v, mapping |-> m,
                done |-> FALSE, out |-> Null] :
                  v \in ChoiceValues, m \in ChoiceRules}
         \cup {[fn |-> "load",
                fieldMappings |-> [incident_creation |-> {m},
                                   incident_updates |-> u],
                done |-> FALSE, out |-> Null] :
                  m \in LoadedRules,
                  u \in {{}} \cup {{LoadedRule(t, RuleProperties)} :
                                      t \in MappingTypes \cup {"bogus"}}}
         \cup {Request(c, r) :
                  c \in {"servicenow", "incident_io"},
                  r \in {[present |-> FALSE, n |-> 0]}
                           \cup {[present |-> TRUE, n |-> k] : k \in 0..MaxRetry}}
         \cup {CachedKey, LoopGuard}
         \cup {[fn |-> "applyMappings", mappings |-> m, data |-> d,
                lookup |-> l, done |-> FALSE, out |-> EmptyMap, errors |-> {}] :
                  m \in RuleSets, d \in MappedData,
                  l \in {"sysid1", Null, Thrown}}
         \cup {[fn |-> "mapServiceNowToIncidentIO", rec |-> r,
                updatedFields |-> f, old |-> o, features |-> e, table |-> t,
                done |-> FALSE, out |-> Null] :
                  r \in FetchedRecords, f \in NotifiedFields,
                  o \in NotifiedValues, e \in SyncFeatures,
                  t \in SeverityTables}

EvalNext ==
    \/ Extract
    \/ MapStatus
    \/ MapChoice
    \/ LoadConfig
    \/ RequestSucceeds
    \/ RequestFails
    \/ LookupTick
    \/ PlatformEdit
    \/ CachedLookup
    \/ LookupReturns
    \/ LookupThrows
    \/ MapFields
    \/ GuardTick
    \/ \E id \in GuardIds : GuardTrack(id)
    \/ \E id \in GuardIds : GuardCheck(id)
    \/ ApplyRules

EvalSpec == EvalInit /\ [][EvalNext]_vars

(***************************************************************************)
(* The redirects between createIncident and updateIncident, with records   *)
(* deleted in ServiceNow while forward invocations are in flight.          *)
(***************************************************************************)
RedirectInit ==
    /\ InitState
    /\ incidentHandlerRef = TRUE
    /\ recentReverseSyncUpdates = [i \in IncidentIds |-> NoEntry]
    /\ config = DefaultConfig
    /\ snRecords = [s \in SysIds |-> IF s = "s1" THEN LinkedRecord("X", "n1")
                                    ELSE NoRecord]
    /\ ioIncidents = [i \in IncidentIds |-> Incident("n1", "m1")]
    /\ maxInFlight = MaxCalls
    /\ emit = FALSE
    /\ edits = 0
    /\ payloads = {Null}
    /\ Idle

RedirectNext ==
    \/ CreateTrigger
    \/ UpdateTrigger
    \/ ForwardStep
    \/ \E s \in SysIds : ServiceNowDelete(s)

RedirectSpec == RedirectInit /\ [][RedirectNext]_vars

(***************************************************************************)
(* Forward invocations for X, one at a time and with the clock, under a    *)
(* Loop Guard that may also hold the entry of another incident.            *)
(***************************************************************************)
GuardInit ==
    /\ InitState
    /\ incidentHandlerRef = TRUE
    /\ recentReverseSyncUpdates \in [GuardIds -> {NoEntry, ClockStep}]
    /\ config = DefaultConfig
    /\ snRecords \in {[s \in SysIds |-> NoRecord],
                      [s \in SysIds |-> IF s = "s1" THEN LinkedRecord("X", "n1")
                                        ELSE NoRecord]}
    /\ ioIncidents = [i \in IncidentIds |-> Incident("n1", "m1")]
    /\ maxInFlight = 1
    /\ emit = FALSE
    /\ edits = 0
    /\ payloads = {Null}
    /\ Idle

GuardNext ==
    \/ CreateTrigger
    \/ UpdateTrigger
    \/ ForwardStep
    \/ Tick

GuardSpec == GuardInit /\ [][GuardNext]_vars

(***************************************************************************)
(* Properties.                                                             *)
(***************************************************************************)
\* invocations in flight of one handler for one key
Forward(id) == {c \in InFlight : c.op \in {"create", "update"} /\ c.id = id}
Reverse(sysId) == {c \in InFlight : c.op = "reverse" /\ c.sys = sysId}
Copies(set) == BagCardinality([c \in set |-> CopiesIn(c, calls)])

\* a step in which an invocation ends
Ends == BagCardinality(calls') < BagCardinality(calls)
\* a step in which an invocation is turned away at its entry
TurnedAway == calls' = calls /\ last' # last

\* C5: for every sys_id at most one handleServiceNowUpdate call is past the
\* lock check; a call that arrives while another is in flight for the same
\* sys_id ends at once, having made no platform call and raised no error,
\* and leaves the lock with the call in flight.
C5_ReverseLock ==
    /\ [](\A s \in SysIds : Copies(Reverse(s)) <= 1)
    /\ [][\A s \in SysIds :
            (TurnedAway /\ last'.op = "reverse" /\ last'.sys = s)
               => /\ Reverse(s) # {}
                  /\ last'.out = "dropped"
                  /\ last'.did = {}
                  /\ s \in processingUpdates']_vars

C5_Witness ==
    /\ last.op = "reverse" /\ last.out = "dropped"
    /\ Reverse(last.sys) # {}
    /\ last.sys \in processingUpdates

\* C7: whenever no handleServiceNowUpdate(sysId) call is in flight, sysId is
\* not in the reverse processing set: every exit path of the handler
\* releases the lock it acquired.
C7_ReverseRelease ==
    \A s \in SysIds : s \in processingUpdates => Reverse(s) # {}

C7_Witness ==
    /\ last.op = "reverse"
    /\ last.out \in {"unlinked", "notfound", "nochanges", "synced", "error"}
    /\ last.sys \notin processingUpdates
    /\ Reverse(last.sys) = {}

\* C4 as stated: for every incident id at most one forward sync
\* (createIncident or updateIncident) is in flight at any time.
C4_OneForwardSync ==
    \A id \in IncidentIds : Copies(Forward(id)) <= 1

\* C6: whenever no createIncident(id) call is in flight, id is not in the
\* forward processing set: every exit path of createIncident, the redirect
\* to updateIncident included, releases the lock.
C6_ForwardRelease ==
    \A id \in IncidentIds :
        id \in processingIncidents
            => \E c \in Forward(id) : "create" \in Range(c.stack)

\* a createIncident that was redirected to updateIncident and suppressed there
C6_Witness ==
    /\ last.op = "create" /\ last.out = "suppressed"
    /\ last.id \notin processingIncidents
    /\ Forward(last.id) = {}

\* the live records that cross-reference incident id
Linked(id) ==
    {s \in SysIds : snRecords[s].st = "live" /\ snRecords[s].u_incident_io_id = id}

Proceeds(id) ==
    /\ Forward(id) = {}
    /\ \E c \in BagToSet(calls') : c.op = "update" /\ c.id = id
\* a step in which updateIncident(id) is invoked from outside and suppressed
Suppressed(id) ==
    /\ TurnedAway
    /\ last'.op = "update" /\ last'.id = id /\ last'.out = "suppressed"

\* C1 as stated: once a reverse sync of incident X has completed at time t,
\* an updateIncident(X) invoked before t + 30s is suppressed and one invoked
\* at t + 30s or later is not.
C1_Cooldown ==
    [][\A id \in IncidentIds :
         reverseDoneAt[id] # NoEntry =>
            /\ now < reverseDoneAt[id] + CooldownPeriod => ~Proceeds(id)
            /\ now >= reverseDoneAt[id] + CooldownPeriod => ~Suppressed(id)]_vars

\* C3 as stated: whenever handleServiceNowUpdate ends successfully after
\* applying updates to incident X, the Loop Guard holds an entry for X
\* stamped with the time of completion.
C3_GuardWritten ==
    [][(Ends /\ last'.op = "reverse" /\ last'.out = "synced")
          => recentReverseSyncUpdates'[last'.id] = now]_vars

\* C9 as stated: an updateIncident(id) that follows at once an
\* updateIncident(id) that was not suppressed and did not fail, with no edit
\* of the incident in between, maps to the empty set and issues no
\* ServiceNow update call.
C9_Idempotent ==
    (last.op = "update" /\ last.after \in {"updated", "noop"}
                        /\ last.out \notin {"suppressed", "error"})
        => (last.out = "noop" /\ "update" \notin last.did)

\* C10 as stated: createIncident fails without a ServiceNow create call
\* whenever a required field is missing from the mapping result, be it
\* required by its own rule or by the global list.
C10_RequiredFails ==
    (last.op = "create" /\ last.req # {})
        => (last.out = "error" /\ "create" \notin last.did)

\* no sync in flight and no notification waiting to be handled
Quiescent ==
    /\ calls = EmptyBag
    /\ pendingFwd = EmptyBag
    /\ pendingRev = EmptyBag

C11_LinkBestEffort ==
    [][\A c \in InFlight :
         (c.pc = "c_link" /\ c.res = "err" /\ calls' = calls (-) SetToBag({c}))
            => /\ last'.out = "created"
               /\ last'.sys = c.sys
               /\ snRecords'[c.sys].st = "live"
               /\ c.id \notin processingIncidents']_vars

\* a creation has ended well although the link was never written
C11_Witness ==
    /\ last.op = "create" /\ last.out = "created"
    /\ config.add_servicenow_link
    /\ ~ioIncidents[last.id].link
    /\ snRecords[last.sys].st = "live"
    /\ last.id \notin processingIncidents

\* the values a forward sync of incident id may send to ServiceNow: those of
\* the record incident.io holds
FromRecord(id) == {IncidentData(id)[p] : p \in DOMAIN IncidentData(id)}

\* C12: forward sync takes no field value from the webhook payload: whatever
\* payload triggered an invocation, the data it maps and the data ServiceNow
\* holds come from the fetched incident.io record alone, so runs that differ
\* in their payloads only make the same calls with the same data.
C12_PayloadUnused ==
    /\ \A c \in InFlight : \A f \in DOMAIN c.m : c.m[f] \in FromRecord(c.id)
    /\ \A s \in SysIds :
          /\ snRecords[s].short_description \notin PayloadNames
          /\ \A i \in 1..Len(snRecords[s].work_notes) :
                snRecords[s].work_notes[i] \notin PayloadNames

\* an invocation triggered with a payload name has written to ServiceNow
C12_Witness ==
    \E c \in InFlight :
        /\ c.payload \in PayloadNames
        /\ c.pc \in {"u_write", "c_create"} /\ c.res = "ok"
        /\ snRecords[c.sys].short_description = ioIncidents[c.id].name

\* C13 as stated: for notes full = P \o old with P not empty,
\* extractNewWorkNotes(full, old) is P with its whitespace trimmed, and when
\* full is not longer than old there is no delta.
C13_Delta ==
    (eval.fn = "extractNewWorkNotes" /\ eval.done)
        => /\ \A P \in Strings \ {<<>>} :
                 eval.full = P \o eval.old => eval.out = Trim(P)
           /\ Len(eval.full) <= Len(eval.old) => eval.out = <<>>

\* C14: in a reverse sync whose fetched work_notes equal old_values.work_notes
\* there is no note delta: no add_update entry is mapped and
\* addIncidentUpdate is not called, even when updated_fields lists work_notes.
C14_NoDelta ==
    \A c \in InFlight :
        (/\ c.op = "reverse"
         /\ c.pc \in {"r_get", "r_upd", "r_add"} /\ c.res # Null
         /\ snRecords[c.sys].work_notes = c.old)
            => (c.note = <<>> /\ c.pc # "r_add")

\* such a reverse sync of a record with notes, updating the name only
C14_Witness ==
    \E c \in InFlight :
        /\ c.op = "reverse" /\ c.pc = "r_upd"
        /\ "work_notes" \in c.fields
        /\ c.old # <<>>
        /\ snRecords[c.sys].work_notes = c.old

\* C15 as stated: the status id reverse sync writes for an incident_state is
\* one of the live ids (Investigating, Fixing, Monitoring) whatever table is
\* in effect, built-in or configured, and a state absent from the table in
\* effect produces no status update.
C15_LiveOnly ==
    (eval.fn = "mapServiceNowStatusToIncidentIO" /\ eval.done)
        => LET inEffect == IF eval.table.present THEN eval.table.at
                           ELSE StatusMapping IN
           /\ eval.out # Null => eval.out \in LiveStatusIds
           /\ inEffect[eval.state] = Absent => eval.out = Null

Records == 1..bulk.n
Errors == {bulk.results.errors[k] : k \in 1..Len(bulk.results.errors)}

\* C16: a bulk forward sync of n records with batch size b makes exactly
\* ceil(n / b) batches and processes each record exactly once; the returned
\* total is n and created + updated + skipped + the number of errors is n; a
\* failing record is in the error list and the records after it are still
\* processed.
C16_BulkCounts ==
    bulk.op = "syncAllIncidents"
        => /\ \A r \in Records : bulk.starts[r] <= 1
           /\ \A r \in Records : bulk.out[r] = "error" <=> r \in Errors
           /\ bulk.pc = "done"
                 => /\ bulk.batches = Ceil(bulk.n, bulk.batchSize)
                    /\ \A r \in Records : bulk.starts[r] = 1 /\ bulk.out[r] # "none"
                    /\ bulk.results.total = bulk.n
                    /\ bulk.results.created + bulk.results.updated
                          + bulk.results.skipped + Len(bulk.results.errors)
                       = bulk.n

\* a finished bulk sync of two batches in which the first record failed and a
\* later one was created
C16_Witness ==
    /\ bulk.op = "syncAllIncidents" /\ bulk.pc = "done"
    /\ bulk.n = MaxRecords /\ bulk.batches = 2
    /\ bulk.out[1] = "error"
    /\ bulk.results.created >= 1

\* C17 as stated: during a bulk operation, forward or reverse, the per-record
\* syncs in flight never exceed concurrent_requests.
C17_Concurrency ==
    bulk.op # "none" => Cardinality(bulk.running) <= bulk.concurrency

\* C18 as stated: handleBulkServiceNowUpdates returns successful + failed +
\* skipped = n with the skipped reverse syncs (duplicate in flight, unlinked,
\* no mappable change) counted under skipped and not under successful, one
\* error entry per failure, and every update processed.
C18_ReverseCounts ==
    (bulk.op = "handleBulkServiceNowUpdates" /\ bulk.pc = "done")
        => LET skips == {r \in Records :
                            bulk.out[r] \in {"dropped", "unlinked", "nochanges"}}
           IN /\ \A r \in Records : bulk.out[r] # "none"
              /\ bulk.results.successful + bulk.results.failed
                    + bulk.results.skipped = bulk.n
              /\ Len(bulk.results.errors) = bulk.results.failed
              /\ bulk.results.skipped >= Cardinality(skips)
              /\ bulk.results.successful <= bulk.n - bulk.results.failed
                                               - Cardinality(skips)

\* C19 as stated: a value that is a key of the dictionary maps to that key's
\* output, the exact match taking precedence over the case-normalized one;
\* otherwise a value whose lower-case form is a key maps to that key's
\* output; otherwise the result is the fallback, or null without one.
C19_ExactFirst ==
    (eval.fn = "mapChoiceField" /\ eval.done)
        => LET exact == Lookup(eval.mapping.mappings, eval.value)
               lower == Lookup(eval.mapping.mappings, ToLowerCase(eval.value))
           IN eval.out =
                 (IF exact # Absent THEN exact
                  ELSE IF lower # Absent THEN lower
                  ELSE IF eval.mapping.fallback # NoFallback
                       THEN eval.mapping.fallback
                       ELSE Null)

\* C20 as stated: loading a configuration with a rule whose type is not one
\* of the six mapping types fails, and a configuration whose rules all have
\* one of the six types (and the properties a rule can carry) loads.
C20_TypeChecked ==
    (eval.fn = "load" /\ eval.done)
        => LET rules == eval.fieldMappings.incident_creation
                           \cup eval.fieldMappings.incident_updates
           IN /\ (\E m \in rules : m.type \notin MappingTypes)
                    => eval.out = "failed"
              /\ (\A m \in rules : m.type \in MappingTypes /\ m.has = RuleProperties)
                    => eval.out = "loaded"

\* C21 as stated: a request is retried at most retry_attempts times (3 when
\* none is configured) and only after a transient failure (5xx, ECONNRESET,
\* ENOTFOUND); the delay doubles from one retry to the next; a transient
\* failure with the retries used up is surfaced as an error.
C21_BoundedRetry ==
    eval.fn = "request"
        => LET limit == IF eval.retry_attempts.present THEN eval.retry_attempts.n
                        ELSE DefaultRetryAttempts
           IN /\ Len(eval.retried) <= limit
              /\ \A k \in 1..Len(eval.retried) :
                    eval.retried[k] \in {"5xx", "ECONNRESET", "ENOTFOUND"}
              /\ \A k \in 1..(Len(eval.waits) - 1) :
                    eval.waits[k + 1] = 2 * eval.waits[k]
              /\ eval.sent = Len(eval.retried) + 1
              /\ (eval.done /\ eval.out = "error"
                    /\ eval.failure \in {"5xx", "ECONNRESET", "ENOTFOUND"})
                    => Len(eval.retried) = limit

\* C22: a value cachedLookup returns without calling the platform comes from
\* an entry stored less than 5 minutes earlier, and a lookup the platform
\* answers stores that answer, null included, with the current time.
C22_CacheTtl ==
    /\ [](eval.fn = "cachedLookup" /\ eval.last.how = "cache"
             => eval.last.age < CacheTimeout)
    /\ [][eval.fn = "cachedLookup"
            => /\ (eval'.last # eval.last /\ eval'.last.how = "cache")
                     => /\ eval.cache.present
                        /\ eval.t - eval.cache.timestamp < CacheTimeout
                        /\ eval'.last.value = eval.cache.value
                        /\ eval'.waiting = eval.waiting
               /\ (/\ BagCardinality(eval'.waiting) < BagCardinality(eval.waiting)
                   /\ eval'.last.how = "platform")
                     => eval'.cache = [present |-> TRUE,
                                       value |-> eval'.last.value,
                                       timestamp |-> eval.t]]_vars

\* a not-found answer served from the cache, stored when the entry before it
\* had reached five minutes of age
C22_Witness ==
    /\ eval.fn = "cachedLookup"
    /\ eval.last.how = "cache" /\ eval.last.value = Null /\ eval.last.age = 0
    /\ eval.cache.present /\ eval.cache.timestamp = CacheTimeout

\* the state of the service and of the two platforms, the record of the last
\* request apart
ServiceState ==
    <<processingIncidents, recentReverseSyncUpdates, processingUpdates,
      snRecords, ioIncidents, calls, createCalls, pendingFwd, pendingRev>>

\* C23: an incident.io event whose event_type is not creation, update or
\* status update, and a ServiceNow notification whose operation is not
\* "update" or whose table is not the incident table, are acknowledged
\* without a call of a sync handler and without a change of state.
C23_Ignored ==
    [][/\ \A id \in IncidentIds, h \in BOOLEAN :
            RouteWebhookEvent("public_incident.incident_closed_v2", id, h)
               => (last'.out = "ignored" /\ UNCHANGED ServiceState)
       /\ \A n \in {<<"problem", "update">>, <<"incident", "insert">>,
                     <<"problem", "insert">>},
            s \in SysIds :
            ServiceNowWebhook(n[1], n[2], s, {}, <<>>)
               => (last'.out = "ignored" /\ UNCHANGED ServiceState)]_vars

\* a notification was ignored while a sync was in flight
C23_Witness ==
    /\ last.op = "route" /\ last.out = "ignored"
    /\ InFlight # {}

\* C24 as stated: a manual forward sync for X within the cooldown after a
\* reverse write for X writes nothing to ServiceNow, and a manual forward or
\* reverse sync for an id that has a sync in flight in that direction is
\* dropped.
C24_ManualChecked ==
    [][/\ \A id \in IncidentIds, a \in {"create", "update"} :
            ManualSync(id, a)
               => /\ (/\ recentReverseSyncUpdates[id] # NoEntry
                      /\ now < recentReverseSyncUpdates[id] + CooldownPeriod
                      /\ a = "update")
                        => (calls' = calls /\ last'.out = "suppressed")
                  /\ Forward(id) # {} => (calls' = calls /\ last'.out = "dropped")
       /\ \A s \in SysIds :
            (ManualReverseSync(s, {"short_description"}, <<>>) /\ Reverse(s) # {})
               => (calls' = calls /\ last'.out = "dropped")]_vars

\* a reverse sync has written incident id: one that has ended, or one in
\* flight whose field update or comment append has been applied
ReverseWrote(id) ==
    \/ reverseDoneAt[id] # NoEntry
    \/ \E c \in InFlight :
          /\ c.op = "reverse" /\ c.id = id
          /\ \/ c.pc = "r_upd" /\ c.res = "ok"
             \/ c.pc = "r_add" /\ (c.res = "ok" \/ DOMAIN c.m # {})

\* a step in which an updateIncident(id) sends its update to ServiceNow
ForwardWrites(id) ==
    \E c \in BagToSet(calls') :
        /\ c.op = "update" /\ c.id = id /\ c.pc = "u_write"
        /\ c \notin InFlight

\* C25 as stated: from the first incident.io write of a reverse sync for X
\* until the cooldown ends, no forward update for X reaches ServiceNow, also
\* while the reverse sync is still in flight.
C25_NoEcho ==
    [][\A id \in IncidentIds :
         (/\ ReverseWrote(id)
          /\ reverseDoneAt[id] # NoEntry => now < reverseDoneAt[id] + CooldownPeriod)
            => ~ForwardWrites(id)]_vars


\* C26 as stated: when the comment append of a reverse sync fails after its
\* field update succeeded, the sync is reported as failed, its processing
\* lock is released and a Loop Guard entry for the incident is recorded
\* (checked with the handler reference wired).
C26_PartialFailure ==
    [][\A c \in InFlight :
         (/\ incidentHandlerRef
          /\ c.op = "reverse" /\ c.pc = "r_add" /\ c.res = "err"
          /\ DOMAIN c.m # {}
          /\ c \notin BagToSet(calls'))
            => /\ last'.out = "error"
               /\ c.sys \notin processingUpdates'
               /\ recentReverseSyncUpdates'[c.id] = now]_vars

\* the outcomes of a reverse sync that is skipped
Skips == {"unlinked", "notfound", "nochanges"}

\* C27: a skipped reverse sync has made no write to incident.io, ends
\* without an error and leaves the Loop Guard as it was; an entry of the
\* Loop Guard is only created when a reverse sync that wrote to that
\* incident ends.
C27_SkipsLeaveNoTrace ==
    [][/\ (Ends /\ last'.op = "reverse" /\ last'.out \in Skips)
            => /\ "io" \notin last'.did
               /\ UNCHANGED <<recentReverseSyncUpdates, ioIncidents, pendingFwd>>
       /\ \A id \in IncidentIds :
            (/\ recentReverseSyncUpdates'[id] # recentReverseSyncUpdates[id]
             /\ recentReverseSyncUpdates'[id] # NoEntry)
               => /\ Ends /\ last'.op = "reverse" /\ last'.id = id
                  /\ last'.out = "synced" /\ "io" \in last'.did]_vars

\* a reverse sync was skipped after an earlier one had left its entry
C27_Witness ==
    /\ last.op = "reverse" /\ last.out \in Skips
    /\ \E id \in IncidentIds : recentReverseSyncUpdates[id] # NoEntry

\* C28: a reverse sync issues the field update first and only when a field
\* is mapped, without the note; it issues the comment afterwards, as a call
\* of its own that leaves the fields alone, and only when there is a note.
C28_TwoCalls ==
    [][\A c \in InFlight, d \in BagToSet(calls') :
         (c.op = "reverse" /\ d.op = "reverse" /\ d.sys = c.sys /\ d # c)
            => /\ d.pc = "r_upd"
                    => /\ c.pc = "r_get" /\ DOMAIN c.m # {}
                       /\ ioIncidents'[d.id].updates = ioIncidents[d.id].updates
               /\ d.pc = "r_add"
                    => /\ c.note # <<>>
                       /\ ioIncidents'[d.id].name = ioIncidents[d.id].name
                       /\ IF DOMAIN c.m # {}
                          THEN c.pc = "r_upd" /\ c.res = "ok"
                          ELSE c.pc = "r_get"
               /\ (c.pc = "r_get" /\ DOMAIN c.m # {}) => d.pc = "r_upd"
               /\ (c.pc = "r_get" /\ DOMAIN c.m = {}) => d.pc = "r_add"
               /\ (c.pc = "r_upd") => d.pc = "r_add"]_vars

\* a comment was appended after the field update of the same sync
C28_Witness ==
    \E c \in InFlight :
        /\ c.op = "reverse" /\ c.pc = "r_add" /\ c.res = "ok"
        /\ DOMAIN c.m # {} /\ ioIncidents[c.id].name = c.m.name
        /\ c.note # <<>> /\ c.note \in ioIncidents[c.id].updates


\* C29 as stated: an updateIncident whose mapped work-notes text already
\* appears in the work notes of the ServiceNow record sends no work_notes
\* field to ServiceNow.
C29_NoRepeatedNote ==
    [][\A d \in BagToSet(calls') \ InFlight :
         (/\ d.pc = "u_write"
          /\ "work_notes" \in DOMAIN d.m
          /\ d.m.work_notes # "")
            => ~CheckWorkNoteExists(d.sys, d.m.work_notes)]_vars


\* how far a forward invocation has come: its frames, then the await its
\* innermost frame has reached
Stage(pc) ==
    CASE pc \in {"u_find", "c_find"} -> 1
      [] pc \in {"u_get", "c_get"} -> 2
      [] pc \in {"u_dedup", "c_create"} -> 3
      [] pc \in {"u_write", "c_link"} -> 4
Rank(c) == 5 * Len(c.stack) + Stage(c.pc)
CreateFrames(c) == {i \in DOMAIN c.stack : c.stack[i] = "create"}

\* C30: every createIncident or updateIncident call terminates: a chain of
\* redirects enters createIncident past the lock check at most once and
\* holds at most three frames, every step of a call brings it strictly
\* forward, and the lock a chain took is free when its outermost call
\* returns.
C30_RedirectsEnd ==
    /\ [](\A c \in InFlight :
            /\ Cardinality(CreateFrames(c)) <= 1
            /\ Len(c.stack) <= 3
            /\ (c.op = "create" => Len(c.stack) <= 2))
    /\ [][\A c \in InFlight :
            /\ \A d \in BagToSet(calls') :
                 (d # c /\ calls' = (calls (-) SetToBag({c})) (+) SetToBag({d}))
                    => Rank(d) > Rank(c)
            /\ (CreateFrames(c) # {} /\ Ends /\ c \notin BagToSet(calls'))
                    => c.id \notin processingIncidents']_vars

\* an updateIncident was redirected to createIncident, back to
\* updateIncident and to createIncident again, where it ended at the lock
\* its own chain holds, and the lock is free
C30_Witness ==
    /\ last.op = "update" /\ last.out = "dropped"
    /\ calls = EmptyBag
    /\ processingIncidents = {}


\* the reverse mapping has been evaluated with severity sync enabled and
\* urgency, impact or priority listed as changed
SeverityListed ==
    /\ eval.fn = "mapServiceNowToIncidentIO" /\ eval.done
    /\ eval.features.sync_severity
    /\ eval.updatedFields \cap {"urgency", "impact", "priority"} # {}

\* C31: with severity sync enabled and urgency, impact or priority listed,
\* the severity is looked up from the priority of the fetched record when it
\* has one, else from the smaller of urgency and impact taken as integers
\* when it has both, and no severity update is produced when it has neither.
C31_SeverityKey ==
    SeverityListed =>
       LET r == eval.rec
           at == eval.table.at
           known(p) == eval.table.present /\ at[p] # Absent
       IN /\ (r.priority # "" /\ known(r.priority))
                => eval.out.severity_id = at[r.priority]
          /\ (r.priority = "" /\ r.urgency # "" /\ r.impact # "")
                => \E p \in {r.urgency, r.impact} :
                      /\ ParseInt(p) <= ParseInt(r.urgency)
                      /\ ParseInt(p) <= ParseInt(r.impact)
                      /\ known(p) => eval.out.severity_id = at[p]
                      /\ ~known(p) => eval.out.severity_id = Absent
          /\ (r.priority = "" /\ (r.urgency = "" \/ r.impact = ""))
                => (eval.out.severity_id = Absent /\ ~eval.out.threw)

\* urgency "10" and impact "3" without a priority gave the severity of "3"
C31_Witness ==
    /\ SeverityListed
    /\ eval.rec.priority = "" /\ eval.rec.urgency = "10" /\ eval.rec.impact = "3"
    /\ eval.out.severity_id = Minor

\* C32 as stated: a priority without an entry in the configured severity
\* table makes the mapping return without an error, without a severity and
\* with its other mapped changes.
C32_SoftMiss ==
    (/\ SeverityListed
     /\ eval.rec.priority # ""
     /\ eval.table.present /\ eval.table.at[eval.rec.priority] = Absent)
       => /\ ~eval.out.threw
          /\ eval.out.severity_id = Absent
          /\ ("short_description" \in eval.updatedFields
              /\ eval.rec.short_description # "")
                => eval.out.name = eval.rec.short_description

\* C33: the reverse mapping sets name only if short_description is listed,
\* summary only if description is listed, a comment only if work_notes is
\* listed, status only if incident_state is listed and severity only if
\* urgency, impact or priority is listed, each with the value of the fetched
\* record and never with that of the notification.
C33_ListedOnly ==
    (eval.fn = "mapServiceNowToIncidentIO" /\ eval.done)
       => LET r == eval.rec
              f == eval.updatedFields
              o == eval.out
          IN /\ o.name # Absent
                   => ("short_description" \in f /\ o.name = r.short_description)
             /\ o.summary # Absent
                   => ("description" \in f /\ o.summary = r.description)
             /\ o.add_update # <<>>
                   => /\ "work_notes" \in f
                      /\ \E k \in 1..Len(r.work_notes) :
                            o.add_update = SubSeq(r.work_notes, 1, k)
             /\ o.incident_status_id # Absent
                   => ("incident_state" \in f
                       /\ o.incident_status_id = StatusMapping[r.incident_state])
             /\ o.severity_id # Absent
                   => /\ f \cap {"urgency", "impact", "priority"} # {}
                      /\ \E p \in {r.priority, r.urgency, r.impact} \ {""} :
                            o.severity_id = eval.table.at[p]

\* only short_description was listed: the name of the fetched record is
\* set, not the one of the notification, and its description is left out
C33_Witness ==
    /\ eval.fn = "mapServiceNowToIncidentIO" /\ eval.done
    /\ eval.updatedFields = {"short_description"}
    /\ eval.rec.description = "d1" /\ eval.rec.priority = "2"
    /\ eval.old.short_description = "n0"
    /\ eval.out.name = "n1" /\ eval.out.summary = Absent
    /\ eval.out.severity_id = Absent


\* C34: after every trackReverseSyncUpdate(id) the Loop Guard holds the
\* current time for id and no entry older than five minutes, and keeps the
\* entries that are not older; so every entry of the map is the time of a
\* reverse sync at most five minutes before the most recent one.
C34_Retention ==
    /\ [](eval.fn = "loopGuard" =>
            \A j \in GuardIds :
               eval.map[j] # NoEntry
                  => /\ eval.map[j] = eval.tracks[j]
                     /\ eval.written - eval.map[j] <= FiveMinutes)
    /\ [][\A id \in GuardIds :
            GuardTrack(id)
               => /\ eval'.map[id] = eval.t
                  /\ \A j \in GuardIds :
                       /\ eval'.map[j] # NoEntry
                             => eval.t - eval'.map[j] <= FiveMinutes
                       /\ (j # id /\ eval.map[j] # NoEntry
                           /\ eval.t - eval.map[j] <= FiveMinutes)
                             => eval'.map[j] = eval.map[j]]_vars

\* the reverse sync of Y has removed the entry of X, written more than five
\* minutes before it
C34_Witness ==
    /\ eval.fn = "loopGuard" /\ eval.out = "tracked"
    /\ eval.map["Y"] = eval.t
    /\ eval.tracks["X"] # NoEntry /\ eval.t - eval.tracks["X"] > FiveMinutes
    /\ eval.map["X"] = NoEntry


\* a step in which shouldSkipForwardSync(id) is evaluated: at the entry of
\* an updateIncident(id), invoked or reached from createIncident
ChecksGuard(id) ==
    \/ UpdateIncident(id)
    \/ \E c \in InFlight :
          c.id = id /\ c.pc = "c_find" /\ c.res \notin {"err", "none"}
          /\ CreateAfterFind(c)

\* C35: shouldSkipForwardSync(id) leaves the entries of all other ids alone;
\* when it suppresses it leaves the entry of id as it is, and the forward
\* update ends there without a call to ServiceNow and without leaving
\* anything in flight; when the entry has expired it removes that entry.
C35_CheckFrame ==
    [][\A id \in IncidentIds :
         ChecksGuard(id) =>
            LET entry == recentReverseSyncUpdates[id] IN
            /\ \A j \in GuardIds \ {id} :
                  recentReverseSyncUpdates'[j] = recentReverseSyncUpdates[j]
            /\ (entry # NoEntry /\ now - entry < CooldownPeriod)
                  => /\ recentReverseSyncUpdates'[id] = entry
                     /\ last'.out = "suppressed"
                     /\ "update" \notin last'.did /\ "create" \notin last'.did
                     /\ Forward(id)' = {}
                     /\ UNCHANGED <<snRecords, createCalls, pendingFwd, pendingRev>>
            /\ (entry # NoEntry /\ now - entry >= CooldownPeriod)
                  => recentReverseSyncUpdates'[id] = NoEntry]_vars

\* a forward update of X was suppressed and the entries of X and Y stand
C35_Witness ==
    /\ last.op = "update" /\ last.out = "suppressed" /\ last.id = "X"
    /\ recentReverseSyncUpdates["X"] = ClockStep
    /\ recentReverseSyncUpdates["Y"] = ClockStep
    /\ now > ClockStep
    /\ calls = EmptyBag


\* applyMappings has been evaluated; Ruled is the field of the rule that
\* carries every property
Mapped == eval.fn = "applyMappings" /\ eval.done
Ruled == CHOOSE f \in DOMAIN eval.mappings : f # "category"
\* the source path of that rule yields no value
NoValue == eval.mappings[Ruled].source \notin DOMAIN eval.data
\* its condition is there and is false, or cannot be evaluated
ConditionFalse ==
    LET c == eval.mappings[Ruled].condition
    IN c.present /\ (~c.valid \/ c.source \notin DOMAIN eval.data
                     \/ eval.data[c.source] # c.is)

\* C36 as stated: for a rule whose source path yields no value, the field
\* is set to the fallback when the rule has one, also when it is required;
\* else an error is recorded and the field omitted when the rule is
\* required; else the field is omitted without an error.
C36_NoValue ==
    (Mapped /\ NoValue /\ ~ConditionFalse) =>
       LET r == eval.mappings[Ruled] IN
       IF r.fallback # NoFallback
       THEN Ruled \in DOMAIN eval.out /\ eval.out[Ruled] = r.fallback
       ELSE /\ Ruled \notin DOMAIN eval.out
            /\ Ruled \in eval.errors <=> r.required

C38_MaxLength ==
    (/\ Mapped
     /\ eval.mappings[Ruled].max_length # 0
     /\ Ruled \in DOMAIN eval.out)
       => LET r == eval.mappings[Ruled]
              whole == {r.fallback, eval.lookup}
                          \cup {eval.data[p] : p \in {r.source} \cap DOMAIN eval.data}
          IN /\ Len(eval.out[Ruled]) <= r.max_length
             /\ \E v \in whole :
                   /\ eval.out[Ruled] =
                         SubSeq(v, 1, IF Len(v) < r.max_length THEN Len(v)
                                      ELSE r.max_length)
                   /\ (v # r.fallback /\ Len(v) > r.max_length)
                         => Ruled \notin eval.errors

\* the rule fails: its condition is met, its source has a value, and its
\* type is unknown, its expression does not evaluate, or its lookup is
\* rejected or has no table
RuleFails ==
    LET r == eval.mappings[Ruled] IN
    /\ ~ConditionFalse /\ ~NoValue
    /\ eval.data[r.source] # ""
    /\ \/ r.type = "bogus"
       \/ r.type = "expression" /\ r.expression # "value"
       \/ r.type = "reference_lookup" /\ r.lookup_table = Absent
       \/ r.type \in {"user_lookup", "reference_lookup"} /\ eval.lookup = Thrown

====
